---- MODULE Spec2Model ----
(***************************************************************************)
(* Invoice field extraction (htb-thrk/invoice_automation).                 *)
(*                                                                         *)
(* Python strings are sequences of symbols.  A value of a Python dict is a *)
(* tagged record ([t |-> "null"], [t |-> "num", n |-> 5], ...), a dict is  *)
(* a function from its keys to such values, and a raised exception is the  *)
(* value [t |-> "raise", exc |-> <class name>].                            *)
(***************************************************************************)
EXTENDS Integers, Sequences, FiniteSets, TLC

VARIABLES pc, fn, args, result

vars == <<pc, fn, args, result>>

(***************************************************************************)
(* Bounds of the model.                                                    *)
(***************************************************************************)
MaxAmountLen == 4

MaxEntities == 3

MaxTextTokens == 3

MaxDocTokens == 1

MaxDocEntities == 2

MaxExtractTokens == 4

(***************************************************************************)
(* Python values.                                                          *)
(***************************************************************************)
None == [t |-> "null"]

Raise(e) == [t |-> "raise", exc |-> e]

IsRaise(v) == v.t = "raise"

SeqsUpTo(S, n) == UNION {[1..k -> S] : k \in 0..n}

RECURSIVE Pow10(_)
Pow10(k) == IF k = 0 THEN 1 ELSE 10 * Pow10(k - 1)

(***************************************************************************)
(* Amount parser: _to_decimal in its four variants.                        *)
(* An amount string is a sequence over AmountChars; "Y" stands for any     *)
(* character that is neither a digit, a comma, a period, a minus sign nor  *)
(* white space (a yen sign, a letter).                                     *)
(***************************************************************************)
DigitSeq == <<"0", "1", "2", "3", "4", "5", "6", "7", "8", "9">>

\* \d
Digits == {DigitSeq[i] : i \in 1..10}

AmountChars == {"0", "1", ",", ".", "-", " ", "Y"}

DigitVal(c) == (CHOOSE i \in 1..10 : DigitSeq[i] = c) - 1

\* str.strip(): leading and trailing white space removed
RECURSIVE LStrip(_)
LStrip(s) == IF s # <<>> /\ Head(s) = " " THEN LStrip(Tail(s)) ELSE s

RECURSIVE RStrip(_)
RStrip(s) ==
    IF s # <<>> /\ s[Len(s)] = " " THEN RStrip(SubSeq(s, 1, Len(s) - 1)) ELSE s

Strip(s) == RStrip(LStrip(s))

\* str.replace(",", "")
RemoveCommas(s) == SelectSeq(s, LAMBDA c : c # ",")

\* re.sub(r"[^\d,\.]", "", s)
StripNonNumeric(s) == SelectSeq(s, LAMBDA c : c \in Digits \cup {",", "."})

\* the digits of s read left to right as a decimal numeral (Horner)
RECURSIVE Horner(_, _)
Horner(acc, s) ==
    IF s = <<>> THEN acc ELSE Horner(10 * acc + DigitVal(Head(s)), Tail(s))

CountOf(s, c) == Cardinality({i \in 1..Len(s) : s[i] = c})

\* the index of the first c in s, Len(s) + 1 when there is none
FirstIndex(s, c) ==
    IF \E i \in 1..Len(s) : s[i] = c
    THEN CHOOSE i \in 1..Len(s) : s[i] = c /\ \A j \in 1..(i - 1) : s[j] # c
    ELSE Len(s) + 1

\* decimal.Decimal(str): white space around the numeral is ignored, then an
\* optional sign, digits with at most one period and at least one digit;
\* anything else raises InvalidOperation.
DecimalCtor(s) ==
    LET t == Strip(s)
        neg == t # <<>> /\ Head(t) = "-"
        body == IF neg THEN Tail(t) ELSE t
        ok == /\ \A i \in 1..Len(body) : body[i] \in Digits \cup {"."}
              /\ CountOf(body, ".") <= 1
              /\ \E i \in 1..Len(body) : body[i] \in Digits
        dot == FirstIndex(body, ".")
    IN  IF ok
        THEN [t |-> "dec", neg |-> neg,
              m |-> Horner(0, SelectSeq(body, LAMBDA c : c # ".")),
              e |-> IF dot > Len(body) THEN 0 ELSE Len(body) - dot]
        ELSE Raise("InvalidOperation")

\* try: ... except <caught>: return None
Except(v, caught) == IF IsRaise(v) /\ v.exc \in caught THEN None ELSE v

\* a variant that keeps the commas when no period is present
to_decimal_app_keeps_commas(x) ==
    IF x = None THEN None
    ELSE LET s == StripNonNumeric(x.s)
         IN  IF s = <<>> THEN None
             ELSE Except(DecimalCtor(
                      IF CountOf(s, ",") > 0 /\ CountOf(s, ".") > 0
                      THEN RemoveCommas(s)
                      ELSE s),
                  {"InvalidOperation"})

\* src/app/main.py (both copies): strip, drop the commas in either branch
to_decimal_app(x) ==
    IF x = None THEN None
    ELSE LET s == StripNonNumeric(x.s)
         IN  IF s = <<>> THEN None
             ELSE Except(DecimalCtor(
                      IF CountOf(s, ",") > 0 /\ CountOf(s, ".") > 0
                      THEN RemoveCommas(s)
                      ELSE IF CountOf(s, ",") > 0 THEN RemoveCommas(s) ELSE s),
                  {"InvalidOperation"})

\* src/modules/docai_processor.py
to_decimal_docai(x) ==
    IF x = None THEN None
    ELSE LET s == StripNonNumeric(x.s)
         IN  IF s = <<>> THEN None
             ELSE Except(DecimalCtor(RemoveCommas(s)),
                         {"InvalidOperation", "ValueError"})

\* str(None) is "None", which Decimal rejects
StrOf(x) == IF x = None THEN <<"Y", "Y", "Y", "Y">> ELSE x.s

\* src/main.py and src/app/parser.py: no stripping of other characters
to_decimal_main(x) ==
    IF x = None THEN None
    ELSE Except(DecimalCtor(Strip(RemoveCommas(StrOf(x)))), {"InvalidOperation"})

\* src/modules/document_ai_utils.py: no None test, every exception caught
to_decimal_utils(x) ==
    Except(DecimalCtor(Strip(RemoveCommas(StrOf(x)))),
           {"InvalidOperation", "ValueError", "TypeError"})

Str(s) == [t |-> "str", s |-> s]

AmountInputs == {None} \cup {Str(s) : s \in SeqsUpTo(AmountChars, MaxAmountLen)}

AmountFns == {"app", "docai", "main", "utils"}

InitAmount ==
    /\ pc = "call"
    /\ fn \in AmountFns
    /\ args \in AmountInputs
    /\ result = None

ToDecimalApp ==
    /\ pc = "call" /\ fn = "app"
    /\ result' = to_decimal_app(args)
    /\ pc' = "done"
    /\ UNCHANGED <<fn, args>>

ToDecimalDocai ==
    /\ pc = "call" /\ fn = "docai"
    /\ result' = to_decimal_docai(args)
    /\ pc' = "done"
    /\ UNCHANGED <<fn, args>>

ToDecimalMain ==
    /\ pc = "call" /\ fn = "main"
    /\ result' = to_decimal_main(args)
    /\ pc' = "done"
    /\ UNCHANGED <<fn, args>>

ToDecimalUtils ==
    /\ pc = "call" /\ fn = "utils"
    /\ result' = to_decimal_utils(args)
    /\ pc' = "done"
    /\ UNCHANGED <<fn, args>>

NextAmount == ToDecimalApp \/ ToDecimalDocai \/ ToDecimalMain \/ ToDecimalUtils

SpecAmount == InitAmount /\ [][NextAmount]_vars

(***************************************************************************)
(* C9.  The value a numeral denotes, by position, independent of the way   *)
(* DecimalCtor reads it.                                                   *)
(***************************************************************************)
RECURSIVE PosSum(_, _)
PosSum(d, i) ==
    IF i > Len(d) THEN 0
    ELSE DigitVal(d[i]) * Pow10(Len(d) - i) + PosSum(d, i + 1)

\* a plain numeral: digits with at most one period and at least one digit
WellFormed(s) ==
    /\ \A i \in 1..Len(s) : s[i] \in Digits \cup {"."}
    /\ CountOf(s, ".") <= 1
    /\ \E i \in 1..Len(s) : s[i] \in Digits

IntPart(s) == SubSeq(s, 1, FirstIndex(s, ".") - 1)

FracPart(s) == SubSeq(s, FirstIndex(s, ".") + 1, Len(s))

\* v is the decimal that the plain numeral s denotes: v.m / 10^v.e equals
\* IntPart + FracPart / 10^Len(FracPart)
DenotedBy(v, s) ==
    /\ v.t = "dec"
    /\ v.m * Pow10(Len(FracPart(s))) =
           (PosSum(IntPart(s), 1) * Pow10(Len(FracPart(s))) + PosSum(FracPart(s), 1))
               * Pow10(v.e)

\* the claim's reading of the input: everything but digits, commas and
\* periods stripped, then every comma removed
Cleaned(x) == RemoveCommas(StripNonNumeric(x.s))

ParseAmountAsClaimed(x, r) ==
    /\ ~IsRaise(r)
    /\ x = None => r = None
    /\ x # None =>
          IF WellFormed(Cleaned(x))
          THEN DenotedBy(r, Cleaned(x)) /\ (r.m = 0 \/ ~r.neg)
          ELSE r = None

\* src/main.py: only commas and surrounding white space are removed, a
\* leading sign is read as a sign
Trimmed(x) == Strip(RemoveCommas(x.s))

Unsigned(s) == IF s # <<>> /\ Head(s) = "-" THEN Tail(s) ELSE s

ParseAmountMain(x, r) ==
    /\ ~IsRaise(r)
    /\ x = None => r = None
    /\ x # None =>
          IF WellFormed(Unsigned(Trimmed(x)))
          THEN /\ DenotedBy(r, Unsigned(Trimmed(x)))
               /\ (r.m = 0 \/ r.neg = (Head(Trimmed(x)) = "-"))
          ELSE r = None

LowerSym(c) ==
    CASE c = "TOTAL" -> "total"
      [] c = "SUB" -> "sub"
      [] c = "AMOUNT" -> "amount"
      [] OTHER -> c

\* str.lower()
Lower(s) == [i \in 1..Len(s) |-> LowerSym(s[i])]

\* needle in hay
Contains(hay, needle) ==
    \E i \in 0..(Len(hay) - Len(needle)) : SubSeq(hay, i + 1, i + Len(needle)) = needle

\* (e.type_ or "").lower()
TypeLower(e) == IF e.type_ = None THEN <<>> ELSE Lower(e.type_.s)

\* the candidate lists the callers pass, src/main.py:110-130
CandCompanyMain == << <<"supplier", "_", "name">>, <<"vendor", "_", "name">>,
                      <<"seller", "_", "name">>, <<"merchant", "_", "name">> >>

CandSubtotalMain == << <<"sub", "total">>, <<"net", "_", "amount">>,
                       <<"amount", "_", "due", "_", "excluding", "_", "tax">> >>

CandTotalMain == << <<"total", "_", "amount">>, <<"amount", "_", "due">>,
                    <<"grand", "_", "total">>, <<"total">> >>

CandTaxMain == << <<"tax", "_", "amount">>, <<"vat">>, <<"consumption", "_", "tax">> >>

CandDueMain == << <<"due", "_", "date">>, <<"payment", "_", "due", "_", "date">>,
                  <<"payment", "_", "terms", "_", "due", "_", "date">> >>

\* src/modules/document_ai_utils.py:50-62
CandCompanyUtils == << <<"supplier", "_", "name">>, <<"vendor", "_", "name">>,
                       <<"seller", "_", "name">> >>

CandSubtotalUtils == << <<"sub", "total">>, <<"net", "_", "amount">> >>

CandTotalUtils == << <<"total">>, <<"grand", "_", "total">> >>

CandDueUtils == << <<"due", "_", "date">>, <<"payment", "_", "due", "_", "date">> >>

\* for e in entities: if cand in (e.type_ or "").lower(): return e
\* (the index of the entity, 0 when the loop ends without a return)
RECURSIVE FirstEntityWith(_, _, _)
FirstEntityWith(entities, cand, i) ==
    IF i > Len(entities) THEN 0
    ELSE IF Contains(TypeLower(entities[i]), cand) THEN i
    ELSE FirstEntityWith(entities, cand, i + 1)

\* for cand in type_candidates: ... return None
RECURSIVE BestFrom(_, _, _)
BestFrom(entities, cands, k) ==
    IF k > Len(cands) THEN 0
    ELSE IF FirstEntityWith(entities, cands[k], 1) # 0
         THEN FirstEntityWith(entities, cands[k], 1)
         ELSE BestFrom(entities, cands, k + 1)

\* a variant with the loops exchanged: the first entity that matches any candidate
best_entity_entity_major(entities, cands) ==
    IF \E i \in 1..Len(entities) : \E k \in 1..Len(cands) :
           Contains(TypeLower(entities[i]), cands[k])
    THEN CHOOSE i \in 1..Len(entities) :
           /\ \E k \in 1..Len(cands) : Contains(TypeLower(entities[i]), cands[k])
           /\ \A j \in 1..(i - 1) : \A k \in 1..Len(cands) :
                  ~Contains(TypeLower(entities[j]), cands[k])
    ELSE 0

best_entity(entities, cands) == BestFrom(entities, cands, 1)

Ent(i) == IF i = 0 THEN None ELSE [t |-> "ent", i |-> i]

SelectorTypes ==
    {None, Str(<<"sub", "total">>), Str(<<"SUB", "TOTAL">>),
     Str(<<"total", "_", "amount">>), Str(<<"net", "_", "amount">>),
     Str(<<"amount", "_", "due">>), Str(<<"TOTAL", "_", "tax", "_", "AMOUNT">>),
     Str(<<"supplier", "_", "name">>), Str(<<"due", "_", "date">>)}

SelectorCands ==
    {CandCompanyMain, CandSubtotalMain, CandTotalMain, CandTaxMain, CandDueMain,
     CandCompanyUtils, CandSubtotalUtils, CandTotalUtils, CandDueUtils}

InitEntity ==
    /\ pc = "call"
    /\ fn \in {"main", "utils"}
    /\ args \in [entities : SeqsUpTo([type_ : SelectorTypes], MaxEntities),
                 cands : SelectorCands]
    /\ result = None

BestEntityMain ==
    /\ pc = "call" /\ fn = "main"
    /\ result' = Ent(best_entity(args.entities, args.cands))
    /\ pc' = "done"
    /\ UNCHANGED <<fn, args>>

BestEntityUtils ==
    /\ pc = "call" /\ fn = "utils"
    /\ result' = Ent(best_entity(args.entities, args.cands))
    /\ pc' = "done"
    /\ UNCHANGED <<fn, args>>

NextEntity == BestEntityMain \/ BestEntityUtils

SpecEntity == InitEntity /\ [][NextEntity]_vars

(***************************************************************************)
(* C10                                                                     *)
(***************************************************************************)
\* entity i has a type that contains candidate k, letter case ignored
TypeMatches(i, k) ==
    args.entities[i].type_ # None
        /\ Contains(Lower(args.entities[i].type_.s), Lower(args.cands[k]))

Matched == {k \in 1..Len(args.cands) : \E i \in 1..Len(args.entities) : TypeMatches(i, k)}

FirstMatched == CHOOSE k \in Matched : \A k2 \in Matched : k <= k2

Co(name) == [t |-> "co", name |-> name]

Kw(k) == [t |-> "kw", k |-> k]

Amt(s) == [t |-> "amt", s |-> s]

Commas == [t |-> "commas"]

Date(y, mo, d) == [t |-> "date", sep |-> "kanji", y |-> y, mo |-> mo, d |-> d]

\* <y>/<mo>/<d>
DateS(y, mo, d) == [t |-> "date", sep |-> "slash", y |-> y, mo |-> mo, d |-> d]

Md(mo, d) == [t |-> "md", mo |-> mo, d |-> d]

Nl == [t |-> "nl"]

\* a word in western script
Latin(s) == [t |-> "latin", s |-> s]

\* str(n) for n >= 0
RECURSIVE NumStr(_)
NumStr(n) == IF n < 10 THEN <<DigitSeq[n + 1]>> ELSE NumStr(n \div 10) \o <<DigitSeq[(n % 10) + 1]>>

\* the number of characters a name symbol spells
SymLen(c) == IF c \in {"KABU", "KAISHA", "YUGEN"} THEN 2
             ELSE IF c \in {"PK", "AK"} THEN 3 ELSE 1

RECURSIVE NameLen(_)
NameLen(name) == IF name = <<>> THEN 0 ELSE SymLen(Head(name)) + NameLen(Tail(name))

TokLen(tok) ==
    CASE tok.t = "co" -> NameLen(tok.name)
      [] tok.t = "kw" -> IF tok.k = "due" THEN 4 ELSE IF tok.k = "tax" THEN 3 ELSE 2
      [] tok.t = "amt" -> Len(tok.s)
      [] tok.t = "commas" -> 1
      [] tok.t = "date" -> Len(NumStr(tok.y)) + Len(NumStr(tok.mo)) + Len(NumStr(tok.d)) + 3
      [] tok.t = "md" -> Len(NumStr(tok.mo)) + Len(NumStr(tok.d)) + 2
      [] tok.t = "nl" -> 1
      [] tok.t = "latin" -> Len(tok.s)

RECURSIVE ToksLen(_)
ToksLen(toks) ==
    IF toks = <<>> THEN 0
    ELSE TokLen(Head(toks)) + (IF Len(toks) > 1 THEN 1 ELSE 0) + ToksLen(Tail(toks))

\* len(text)
TextLen(text) == ToksLen(text.toks) + text.tail

\* datetime(y, mo, d): ValueError unless it is a calendar date
IsLeap(y) == (y % 4 = 0 /\ y % 100 # 0) \/ y % 400 = 0

DaysInMonth(y, mo) ==
    IF mo = 2 THEN (IF IsLeap(y) THEN 29 ELSE 28)
    ELSE IF mo \in {4, 6, 9, 11} THEN 30 ELSE 31

DateValid(y, mo, d) ==
    y \in 1..9999 /\ mo \in 1..12 /\ d >= 1 /\ d <= DaysInMonth(y, mo)

\* datetime(y, mo, d).date().isoformat()
IsoDate(y, mo, d) ==
    IF DateValid(y, mo, d) THEN [t |-> "iso", y |-> y, mo |-> mo, d |-> d]
    ELSE Raise("ValueError")

\* tokens that hold a digit
HasDigit(tok) == tok.t \in {"amt", "date", "md"}

\* the first token after position i that holds a digit, 0 when there is none
FirstDigitAfter(toks, i) ==
    IF \E j \in (i + 1)..Len(toks) : HasDigit(toks[j])
    THEN CHOOSE j \in (i + 1)..Len(toks) :
            HasDigit(toks[j]) /\ \A k \in (i + 1)..(j - 1) : ~HasDigit(toks[k])
    ELSE 0

\* the longest prefix of s over the characters of cls
RECURSIVE PrefixOver(_, _)
PrefixOver(s, cls) ==
    IF s # <<>> /\ Head(s) \in cls THEN <<Head(s)>> \o PrefixOver(Tail(s), cls) ELSE <<>>

\* what ([\d,]+) captures at the start of a token that holds a digit
DigitCommaRun(tok) ==
    CASE tok.t = "amt" -> PrefixOver(tok.s, Digits \cup {","})
      [] tok.t = "date" -> NumStr(tok.y)
      [] tok.t = "md" -> NumStr(tok.mo)

Min(S) == CHOOSE x \in S : \A y \in S : x <= y

(***************************************************************************)
(* Python truth, float() and dict access.                                  *)
(***************************************************************************)
Num(n) == [t |-> "num", neg |-> FALSE, m |-> n, e |-> 0]

Dict(d) == [t |-> "dict", d |-> d]

\* bool(v)
Truthy(v) ==
    CASE v.t = "null" -> FALSE
      [] v.t \in {"num", "dec"} -> v.m # 0
      [] v.t = "str" -> v.s # <<>>
      [] v.t = "text" -> v.toks # <<>>
      [] OTHER -> TRUE

\* float(v): a number, or a string that spells one; commas are not accepted
PyFloat(v) ==
    CASE v.t \in {"num", "dec"} -> [t |-> "num", neg |-> v.neg, m |-> v.m, e |-> v.e]
      [] v.t = "str" ->
            LET d == DecimalCtor(v.s)
            IN  IF IsRaise(d) THEN Raise("ValueError")
                ELSE [t |-> "num", neg |-> d.neg, m |-> d.m, e |-> d.e]
      [] OTHER -> Raise("TypeError")

\* d.get(k)
Get(d, k) == IF k \in DOMAIN d THEN d[k] ELSE None

\* d[k] = v
Put(d, k, v) == [x \in (DOMAIN d) \cup {k} |-> IF x = k THEN v ELSE d[x]]

\* except Exception: the default stands for whatever was raised
CatchAll(v, default) == IF IsRaise(v) THEN default ELSE v

(***************************************************************************)
(* normalize_vendor_name (src/modules/docai_processor.py).  A name is a    *)
(* sequence of symbols: KABU 株式, KAISHA 会社, YUGEN 有限, PK （株）,     *)
(* MK ㈱, AK (株), RI リ, N ン, KU ク, " " white space, other letters.     *)
(***************************************************************************)
\* re.sub(r"株式会社|（株）|㈱|\(株\)|有限会社", "", name)
RECURSIVE RemoveLegalForms(_)
RemoveLegalForms(s) ==
    IF s = <<>> THEN <<>>
    ELSE IF Len(s) >= 2 /\ s[1] \in {"KABU", "YUGEN"} /\ s[2] = "KAISHA"
         THEN RemoveLegalForms(SubSeq(s, 3, Len(s)))
    ELSE IF s[1] \in {"PK", "MK", "AK"} THEN RemoveLegalForms(Tail(s))
    ELSE <<s[1]>> \o RemoveLegalForms(Tail(s))

\* re.sub(r"リンクク", "リンク", normalized)
RECURSIVE FixOcr(_)
FixOcr(s) ==
    IF s = <<>> THEN <<>>
    ELSE IF Len(s) >= 4 /\ SubSeq(s, 1, 4) = <<"RI", "N", "KU", "KU">>
         THEN <<"RI", "N", "KU">> \o FixOcr(SubSeq(s, 5, Len(s)))
    ELSE <<s[1]>> \o FixOcr(Tail(s))

\* re.sub(r"\s+", "", normalized)
RemoveSpace(s) == SelectSeq(s, LAMBDA c : c # " ")

normalize_vendor_name(name) ==
    IF ~Truthy(name) THEN name
    ELSE IF name.t # "str" THEN Raise("TypeError")
    ELSE LET normalized == RemoveSpace(FixOcr(RemoveLegalForms(name.s)))
         IN  IF normalized # <<>> THEN Str(Strip(normalized)) ELSE name

(***************************************************************************)
(* extract_with_gemini (src/modules/docai_processor.py).                   *)
(* The service's answer is an input: the call raises, or it returns a text *)
(* that is empty, holds no {...}, holds a {...} that is not JSON, is the   *)
(* object {} or is an object with the four keys.                           *)
(***************************************************************************)
MinTextLen == 40

NoFields == [vendor |-> None, subtotal |-> None, total |-> None, due_date |-> None]

GeminiKeys == {"vendor", "subtotal", "total", "due_date"}

\* raw = (response.text or "").strip(); re.search(r"\{.*\}"); json.loads
ParseResponse(resp) ==
    IF resp.t = "json" THEN resp.obj ELSE <<>>

\* re.search(r'(?:株式|有限)会社[^\s　\n]+', text)
CompanySearch(toks) ==
    IF \E i \in 1..Len(toks) : toks[i].t = "co"
    THEN Str(toks[Min({i \in 1..Len(toks) : toks[i].t = "co"})].name)
    ELSE None

\* re.search(r"(?:<keyword>)[^\d¥￥]*[¥￥]?\s*([\d,]+)", text): from the first
\* keyword that a digit or a comma follows, everything up to the first digit
\* is skipped; with no digit left, backtracking ends on a comma
AmountSearchDocai(toks, k) ==
    LET I == {i \in 1..Len(toks) :
                 /\ toks[i] = Kw(k)
                 /\ \E j \in (i + 1)..Len(toks) : HasDigit(toks[j]) \/ toks[j] = Commas}
    IN  IF I = {} THEN None
        ELSE IF FirstDigitAfter(toks, Min(I)) # 0
             THEN Str(DigitCommaRun(toks[FirstDigitAfter(toks, Min(I))]))
             ELSE Str(<<",">>)

\* re.search(r"(?:支払期限|...)[^\d]*(\d{4})[年/.\-](\d{1,2})[月/.\-](\d{1,2})", text):
\* the first due keyword whose next digits are a 4-digit-year date
DueSearchDocai(toks) ==
    LET I == {i \in 1..Len(toks) :
                 /\ toks[i] = Kw("due")
                 /\ FirstDigitAfter(toks, i) # 0
                 /\ toks[FirstDigitAfter(toks, i)].t = "date"}
    IN  IF I = {} THEN None ELSE toks[FirstDigitAfter(toks, Min(I))]

\* float(val) if val else None
FloatIfTruthy(val) == IF Truthy(val) THEN PyFloat(val) ELSE None

\* a variant that runs the regular expressions whatever the model returned
NeedsFallbackAlways(ai) == TRUE

\* if not ai_fields or not any(ai_fields.values())
NeedsFallback(ai) == DOMAIN ai = {} \/ ~(\E k \in DOMAIN ai : Truthy(ai[k]))

\* lines 127-142: the four searches, then the assignments in order
RegexFallback(ai, text) ==
    LET company == CompanySearch(text.toks)
        amount_total == AmountSearchDocai(text.toks, "total")
        amount_subtotal == AmountSearchDocai(text.toks, "subtotal")
        due == DueSearchDocai(text.toks)
        a1 == IF company # None THEN Put(ai, "vendor", company) ELSE ai
        a2 == IF amount_subtotal # None
              THEN Put(a1, "subtotal", FloatIfTruthy(to_decimal_docai(amount_subtotal)))
              ELSE a1
        a3 == IF amount_total # None
              THEN Put(a2, "total", FloatIfTruthy(to_decimal_docai(amount_total)))
              ELSE a2
    IN  IF due = None THEN Dict(a3)
        ELSE IF IsRaise(IsoDate(due.y, due.mo, due.d)) THEN IsoDate(due.y, due.mo, due.d)
        ELSE Dict(Put(a3, "due_date", IsoDate(due.y, due.mo, due.d)))

\* lines 145-151: the dict display is evaluated before fields.update
Finalize(ai) ==
    LET vendor_raw == Get(ai, "vendor")
        vendor == IF Truthy(vendor_raw) THEN normalize_vendor_name(vendor_raw) ELSE None
        subtotal == IF Truthy(Get(ai, "subtotal")) THEN PyFloat(Get(ai, "subtotal")) ELSE None
        total == IF Truthy(Get(ai, "total")) THEN PyFloat(Get(ai, "total")) ELSE None
    IN  IF IsRaise(vendor) THEN vendor
        ELSE IF IsRaise(subtotal) THEN subtotal
        ELSE IF IsRaise(total) THEN total
        ELSE Dict([vendor |-> vendor, subtotal |-> subtotal, total |-> total,
                   due_date |-> Get(ai, "due_date")])

\* lines 78-153, the body of the try
GeminiTry(text, resp) ==
    IF resp.t = "raise" THEN Raise("ServiceError")
    ELSE LET ai == ParseResponse(resp)
             merged == IF NeedsFallback(ai) THEN RegexFallback(ai, text) ELSE Dict(ai)
         IN  IF IsRaise(merged) THEN merged ELSE Finalize(merged.d)

\* a variant without the enclosing try/except
extract_with_gemini_uncaught(text, resp) ==
    IF TextLen(text) = 0 \/ TextLen(text) < MinTextLen THEN Dict(NoFields)
    ELSE GeminiTry(text, resp)

extract_with_gemini(text, resp) ==
    IF TextLen(text) = 0 \/ TextLen(text) < MinTextLen THEN Dict(NoFields)
    ELSE CatchAll(GeminiTry(text, resp), Dict(NoFields))

NameA == <<"KABU", "KAISHA", "A">>

NameB == <<"KABU", "KAISHA", "B">>

GeminiTokens ==
    {Co(NameA), Kw("total"), Kw("subtotal"), Kw("due"),
     Amt(<<"1", ",", "0", "0", "0">>), Date(2025, 9, 30), Date(2025, 6, 31)}

GeminiTexts == [toks : SeqsUpTo(GeminiTokens, MaxTextTokens), tail : {0, MinTextLen}]

JsonObjects ==
    [vendor : {None, Str(NameB)},
     subtotal : {None, Num(10)},
     total : {None, Num(0), Num(10), Str(<<"Y">>)},
     due_date : {None, [t |-> "iso", y |-> 2026, mo |-> 1, d |-> 31]}]

GeminiResponses ==
    {[t |-> "raise"]}
        \cup {[t |-> "text", kind |-> k] : k \in {"empty", "nojson", "badjson", "emptyobj"}}
        \cup {[t |-> "json", obj |-> o] : o \in JsonObjects}

InitGemini ==
    /\ pc = "call"
    /\ fn = "gemini"
    /\ args \in [text : GeminiTexts, resp : GeminiResponses]
    /\ result = None

ExtractWithGemini ==
    /\ pc = "call" /\ fn = "gemini"
    /\ result' = extract_with_gemini(args.text, args.resp)
    /\ pc' = "done"
    /\ UNCHANGED <<fn, args>>

NextGemini == ExtractWithGemini

SpecGemini == InitGemini /\ [][NextGemini]_vars

(***************************************************************************)
(* C3 - C7: the tiers of extract_with_gemini.                              *)
(***************************************************************************)
\* what the regular-expression tier resolves for field f from the text alone,
\* null when it resolves nothing
RegexField(text, f) ==
    CASE f = "vendor" ->
            IF CompanySearch(text.toks) = None THEN None
            ELSE normalize_vendor_name(CompanySearch(text.toks))
      [] f = "subtotal" ->
            IF AmountSearchDocai(text.toks, "subtotal") = None THEN None
            ELSE FloatIfTruthy(to_decimal_docai(AmountSearchDocai(text.toks, "subtotal")))
      [] f = "total" ->
            IF AmountSearchDocai(text.toks, "total") = None THEN None
            ELSE FloatIfTruthy(to_decimal_docai(AmountSearchDocai(text.toks, "total")))
      [] f = "due_date" ->
            LET due == DueSearchDocai(text.toks)
            IN  IF due = None THEN None
                ELSE IF DateValid(due.y, due.mo, due.d) THEN IsoDate(due.y, due.mo, due.d)
                ELSE None

\* every field the regular-expression tier resolves is in the returned record
RegexFieldsReturned ==
    /\ result.t = "dict"
    /\ \A f \in GeminiKeys :
          RegexField(args.text, f) # None => result.d[f] = RegexField(args.text, f)

\* the model was called: the text is long enough
ModelCalled == TextLen(args.text) >= MinTextLen

\* v is a value the model can give for field f: a malformed amount (a string
\* that spells no number) is a parse failure, not a value
ValueFor(f, v) ==
    /\ v # None
    /\ f \in {"subtotal", "total"} => ~IsRaise(PyFloat(v))

\* the final record holds the model's value v for field f (the vendor in its
\* normalized form)
Holds(f, v) ==
    /\ result.t = "dict"
    /\ \/ result.d[f] = v
       \/ f = "vendor" /\ v.t = "str" /\ result.d[f] = normalize_vendor_name(v)

\* C3: merge precedence: a field for which the language-model tier produced
\* a non-null value holds that value in the final record; the regex tier
\* never overwrites it.
C3_Original ==
    (pc = "done" /\ fn = "gemini" /\ ModelCalled /\ args.resp.t = "json") =>
        \A f \in GeminiKeys :
            ValueFor(f, args.resp.obj[f]) => Holds(f, args.resp.obj[f])

ModelGaveNothing ==
    \/ args.resp.t = "text"
    \/ args.resp.t = "json" /\ \A k \in GeminiKeys : args.resp.obj[k] = None

\* C5: when the model's answer holds no JSON, does not decode or decodes to
\* all-null fields, the regex tier still runs and every field it can resolve
\* is populated, for every text, short ones included.
C5_Original ==
    (pc = "done" /\ fn = "gemini" /\ ModelGaveNothing) => RegexFieldsReturned

\* C6: extract_with_gemini never raises, whatever the model answered, and
\* returns a record with exactly the keys vendor, subtotal, total, due_date.
C6_NeverRaises ==
    (pc = "done" /\ fn = "gemini") =>
        (result.t = "dict" /\ DOMAIN result.d = GeminiKeys)

\* the model answered a non-numeric total ("abc"): float() fails inside the
\* try and the record comes back with its four keys
C6_Witness ==
    /\ pc = "done" /\ fn = "gemini" /\ ModelCalled
    /\ args.resp.t = "json"
    /\ args.resp.obj.total = Str(<<"Y">>)
    /\ IsRaise(GeminiTry(args.text, args.resp))
    /\ result = Dict(NoFields)

\* C7: when the call to the language model fails, the regex tier still runs
\* and its resolved fields appear in the returned record.
C7_Original ==
    (pc = "done" /\ fn = "gemini" /\ ModelCalled /\ args.resp.t = "raise")
        => RegexFieldsReturned

(***************************************************************************)
(* Helpers of the text extractors.                                         *)
(***************************************************************************)
\* [ln.strip() for ln in text.splitlines() if ln.strip()]
RECURSIVE SplitLines(_, _, _)
SplitLines(toks, cur, acc) ==
    IF toks = <<>> THEN (IF cur = <<>> THEN acc ELSE Append(acc, cur))
    ELSE IF Head(toks) = Nl
         THEN SplitLines(Tail(toks), <<>>, IF cur = <<>> THEN acc ELSE Append(acc, cur))
    ELSE SplitLines(Tail(toks), Append(cur, Head(toks)), acc)

Lines(text) == SplitLines(text.toks, <<>>, <<>>)

\* " ".join(lines)
Joined(text) == SelectSeq(text.toks, LAMBDA tok : tok # Nl)

\* the first token of a kind in a line, null when there is none
FirstOfKind(line, kind) ==
    IF \E i \in 1..Len(line) : line[i].t = kind
    THEN line[Min({i \in 1..Len(line) : line[i].t = kind})]
    ELSE None

HasKw(line, ks) == \E i \in 1..Len(line) : line[i].t = "kw" /\ line[i].k \in ks

\* the companies found by re.findall, those that contain an ignored name removed
IgnoredName == <<"HTB", "KABU", "KAISHA">>

CompanyNames(toks) ==
    SelectSeq(toks, LAMBDA tok : tok.t = "co" /\ ~Contains(tok.name, IgnoredName))

CompanyFindall(toks) ==
    IF CompanyNames(toks) = <<>> THEN None ELSE Str(CompanyNames(toks)[1].name)

\* the next token after position i that is not a line break, 0 when none
NextToken(toks, i) ==
    IF \E j \in (i + 1)..Len(toks) : toks[j] # Nl
    THEN Min({j \in (i + 1)..Len(toks) : toks[j] # Nl})
    ELSE 0

\* what a digit/comma class captures at the start of a token
RunAtStart(tok, cls) ==
    CASE tok.t = "amt" -> PrefixOver(tok.s, cls)
      [] tok.t = "commas" -> <<",">>
      [] tok.t = "date" -> NumStr(tok.y)
      [] tok.t = "md" -> NumStr(tok.mo)
      [] OTHER -> <<>>

\* re.search(r"(<keyword>)[：:\s]*[¥￥]?\s*([\d,]+)", text): only white space may
\* stand between the keyword and the captured run
AmountSearchNext(toks, k) ==
    LET I == {i \in 1..Len(toks) :
                 /\ toks[i] = Kw(k)
                 /\ NextToken(toks, i) # 0
                 /\ RunAtStart(toks[NextToken(toks, i)], Digits \cup {","}) # <<>>}
    IN  IF I = {} THEN None
        ELSE Str(RunAtStart(toks[NextToken(toks, Min(I))], Digits \cup {","}))

\* re.search(r"(?:<keyword>)[^¥￥\d]*[¥￥]?\s*([\d,\.]+)", joined)
AmountSearchApp(toks, k) ==
    LET I == {i \in 1..Len(toks) :
                 /\ toks[i] = Kw(k)
                 /\ \E j \in (i + 1)..Len(toks) : HasDigit(toks[j]) \/ toks[j] = Commas}
    IN  IF I = {} THEN None
        ELSE IF FirstDigitAfter(toks, Min(I)) # 0
             THEN Str(RunAtStart(toks[FirstDigitAfter(toks, Min(I))],
                                 Digits \cup {",", "."}))
             ELSE Str(<<",">>)

\* int(val): the fraction is cut off
PyInt(v) == v.m \div Pow10(v.e)

\* f"{n:,}"
RECURSIVE GroupThousands(_)
GroupThousands(ds) ==
    IF Len(ds) <= 3 THEN ds
    ELSE GroupThousands(SubSeq(ds, 1, Len(ds) - 3)) \o <<",">>
             \o SubSeq(ds, Len(ds) - 2, Len(ds))

FormatThousands(n) == Str(GroupThousands(NumStr(n)))

\* the maximal runs of s over the characters of cls
RECURSIVE RunsOver(_, _, _, _)
RunsOver(s, cls, cur, acc) ==
    IF s = <<>> THEN (IF cur = <<>> THEN acc ELSE Append(acc, cur))
    ELSE IF Head(s) \in cls THEN RunsOver(Tail(s), cls, Append(cur, Head(s)), acc)
    ELSE RunsOver(Tail(s), cls, <<>>, IF cur = <<>> THEN acc ELSE Append(acc, cur))

Katakana == {"RI", "N", "KU"}

LatinOrDigit == Digits \cup {".", "-", "_", "A", "B"}

AtLeast3(runs) == SelectSeq(runs, LAMBDA r : Len(r) >= 3)

\* token_pat.findall on one token: [A-Za-z0-9\.\-_]{3,}|[ァ-ンヴー]{3,}
TokenCandidates(tok) ==
    CASE tok.t = "amt" -> AtLeast3(RunsOver(tok.s, LatinOrDigit, <<>>, <<>>))
      [] tok.t = "date" -> AtLeast3(<<NumStr(tok.y)>>)
      [] tok.t = "co" ->
            AtLeast3(RunsOver(tok.name, LatinOrDigit, <<>>, <<>>))
                \o AtLeast3(RunsOver(tok.name, Katakana, <<>>, <<>>))
      [] OTHER -> <<>>

RECURSIVE Candidates(_)
Candidates(toks) ==
    IF toks = <<>> THEN <<>> ELSE TokenCandidates(Head(toks)) \o Candidates(Tail(toks))

\* the first of the longest candidates (a stable sort by length, descending)
Longest(cands) ==
    Str(cands[Min({i \in 1..Len(cands) : \A j \in 1..Len(cands) : Len(cands[j]) <= Len(cands[i])})])

\* the keyword-line loop of the tool guess: null when no keyword line has a
\* candidate on it or on the next line
RECURSIVE ToolScan(_, _)
ToolScan(lines, i) ==
    IF i > Len(lines) THEN None
    ELSE LET cands == Candidates(lines[i])
                        \o (IF i + 1 <= Len(lines) THEN Candidates(lines[i + 1]) ELSE <<>>)
         IN  IF HasKw(lines[i], {"item"}) /\ cands # <<>> THEN Longest(cands)
             ELSE ToolScan(lines, i + 1)

\* re.search(r"(?:部署|部|課)\s*[:：]?\s*([^\s　/()（）【】\[\]]{2,20})", text): the
\* word after the first department keyword that a word of two or more
\* characters follows
WordAfter(toks, k) ==
    LET I == {i \in 1..Len(toks) :
                 /\ toks[i] = Kw(k)
                 /\ NextToken(toks, i) # 0
                 /\ TokLen(toks[NextToken(toks, i)]) >= 2}
    IN  IF I = {} THEN None
        ELSE [t |-> "word", tok |-> toks[NextToken(toks, Min(I))]]

\* else re.search(r"(?:ご担当)\s*([^\s　/()（）【】\[\]]{2,20})", text)
DepartmentGuess(toks) ==
    IF WordAfter(toks, "dept") # None THEN WordAfter(toks, "dept")
    ELSE WordAfter(toks, "contact")

(***************************************************************************)
(* extract_from_text, src/app/parser.py.                                   *)
(***************************************************************************)
\* the first of the values that is a raised exception, null when none is
RECURSIVE FirstRaise(_)
FirstRaise(vs) ==
    IF vs = <<>> THEN None
    ELSE IF IsRaise(Head(vs)) THEN Head(vs) ELSE FirstRaise(Tail(vs))

\* float(_to_decimal(m.group(2))) when the pattern matched
AmountFieldParser(toks, k) ==
    IF AmountSearchNext(toks, k) = None THEN None
    ELSE PyFloat(to_decimal_main(AmountSearchNext(toks, k)))

DueKeywords == {"due"}

\* lines 89-105: the value of due_date after the loop, or the exception that
\* leaves it
RECURSIVE DueScanParser(_, _, _)
DueScanParser(lines, i, year) ==
    IF i > Len(lines) THEN None
    ELSE IF ~HasKw(lines[i], DueKeywords) THEN DueScanParser(lines, i + 1, year)
    ELSE LET m == FirstOfKind(lines[i], "date")
             m2 == FirstOfKind(lines[i], "md")
         IN  IF m = None
             THEN (IF m2 # None THEN IsoDate(year, m2.mo, m2.d)
                   ELSE DueScanParser(lines, i + 1, year))
             ELSE IF DateValid(m.y, m.mo, m.d) THEN IsoDate(m.y, m.mo, m.d)
             ELSE DueScanParser(lines, i + 1, year)

extract_from_text_parser(text, year) ==
    IF TextLen(text) = 0
    THEN Dict([company |-> None, tool |-> None, department |-> None,
               amount_excl_tax |-> None, amount_incl_tax |-> None,
               tax_amount |-> None, due_date |-> None])
    ELSE LET incl == AmountFieldParser(text.toks, "total")
             excl == AmountFieldParser(text.toks, "subtotal")
             tax == AmountFieldParser(text.toks, "tax")
             due == DueScanParser(Lines(text), 1, year)
         IN  IF FirstRaise(<<incl, excl, tax, due>>) # None
             THEN FirstRaise(<<incl, excl, tax, due>>)
             ELSE Dict([company |-> CompanyFindall(text.toks),
                        tool |-> ToolScan(Lines(text), 1),
                        department |-> DepartmentGuess(text.toks),
                        amount_excl_tax |-> excl, amount_incl_tax |-> incl,
                        tax_amount |-> tax, due_date |-> due])

(***************************************************************************)
(* extract_from_text, src/app/main.py lines 210-282.                       *)
(***************************************************************************)
\* val = _to_decimal(group); f"{int(val):,}" when val is not None
AmountFieldApp(toks, k) ==
    IF AmountSearchApp(toks, k) = None THEN None
    ELSE IF to_decimal_app(AmountSearchApp(toks, k)) = None THEN None
    ELSE FormatThousands(PyInt(to_decimal_app(AmountSearchApp(toks, k))))

\* for j in range(3): the first valid date on lines i, i+1, i+2 (the first
\* date of each line only), null when there is none
RECURSIVE DueWindowApp(_, _, _)
DueWindowApp(lines, i, j) ==
    IF j >= 3 THEN None
    ELSE IF i + j > Len(lines) THEN DueWindowApp(lines, i, j + 1)
    ELSE LET m == FirstOfKind(lines[i + j], "date")
         IN  IF m # None /\ DateValid(m.y, m.mo, m.d) THEN IsoDate(m.y, m.mo, m.d)
             ELSE DueWindowApp(lines, i, j + 1)

\* for i, line in enumerate(lines): ... if fields["due_date"]: break
RECURSIVE DueScanApp(_, _)
DueScanApp(lines, i) ==
    IF i > Len(lines) THEN None
    ELSE IF HasKw(lines[i], DueKeywords) /\ DueWindowApp(lines, i, 0) # None
         THEN DueWindowApp(lines, i, 0)
    ELSE DueScanApp(lines, i + 1)

extract_from_text_app(text) ==
    IF TextLen(text) = 0
    THEN Dict([company |-> None, tool |-> None, department |-> None,
               amount_excl_tax |-> None, amount_incl_tax |-> None, due_date |-> None])
    ELSE Dict([company |-> CompanyFindall(text.toks), tool |-> None, department |-> None,
               amount_excl_tax |-> AmountFieldApp(Joined(text), "subtotal"),
               amount_incl_tax |-> AmountFieldApp(Joined(text), "total"),
               due_date |-> DueScanApp(Lines(text), 1)])

(***************************************************************************)
(* extract_fields, src/main.py and src/modules/document_ai_utils.py.       *)
(* A document is its text and its entities; an entity has a type, a        *)
(* mention text (a token sequence, empty when absent) and an anchor (the   *)
(* index of the text token it spans, 0 when absent).  A string cut from    *)
(* the document is [t |-> "text", toks |-> ...].                           *)
(***************************************************************************)
Text(toks) == [t |-> "text", toks |-> toks]

\* str.strip() on a token sequence: the line breaks at both ends go
RECURSIVE StripToks(_)
StripToks(toks) ==
    IF toks # <<>> /\ Head(toks) = Nl THEN StripToks(Tail(toks))
    ELSE IF toks # <<>> /\ toks[Len(toks)] = Nl
         THEN StripToks(SubSeq(toks, 1, Len(toks) - 1))
    ELSE toks

\* doc.text[start:end]
AnchorSlice(doc, e) ==
    IF e.anchor <= Len(doc.text.toks) THEN <<doc.text.toks[e.anchor]>> ELSE <<>>

\* _entity_text(doc, e) / entity_text(e); i is the index best_entity returned
entity_text(doc, i) ==
    IF i = 0 THEN None
    ELSE LET e == doc.entities[i]
         IN  IF e.mention_text # <<>> THEN Text(StripToks(e.mention_text))
             ELSE IF e.anchor # 0 /\ TextLen(doc.text) > 0
                  THEN Text(StripToks(AnchorSlice(doc, e)))
             ELSE None

\* what r"-?\d[\d,]*\.?\d*" matches in an amount string, from its first digit
NumberIn(s) ==
    LET i == Min({k \in 1..Len(s) : s[k] \in Digits})
        sign == IF i > 1 /\ s[i - 1] = "-" THEN <<"-">> ELSE <<>>
        whole == PrefixOver(SubSeq(s, i, Len(s)), Digits \cup {","})
        rest == SubSeq(s, i + Len(whole), Len(s))
    IN  IF rest # <<>> /\ Head(rest) = "."
        THEN sign \o whole \o <<".">> \o PrefixOver(Tail(rest), Digits)
        ELSE sign \o whole

\* the leftmost match of the number pattern in a token that holds a digit
NumberAt(tok) ==
    CASE tok.t = "amt" -> NumberIn(tok.s)
      [] tok.t = "date" -> NumStr(tok.y)
      [] tok.t = "md" -> NumStr(tok.mo)

HoldsDigit(tok) ==
    \/ tok.t \in {"date", "md"}
    \/ tok.t = "amt" /\ \E k \in 1..Len(tok.s) : tok.s[k] \in Digits

\* _parse_amount(text)
parse_amount(text) ==
    IF ~Truthy(text) THEN None
    ELSE IF \E j \in 1..Len(text.toks) : HoldsDigit(text.toks[j])
         THEN to_decimal_main(Str(NumberAt(
                  text.toks[Min({j \in 1..Len(text.toks) : HoldsDigit(text.toks[j])})])))
    ELSE None

\* total - subtotal on Decimal
Signed(v, e) == (IF v.neg THEN -1 ELSE 1) * v.m * Pow10(e - v.e)

DecSub(a, b) ==
    LET e == IF a.e >= b.e THEN a.e ELSE b.e
        d == Signed(a, e) - Signed(b, e)
    IN  [t |-> "dec", neg |-> d < 0, m |-> IF d < 0 THEN -d ELSE d, e |-> e]

FloatOrNone(v) == IF v # None THEN PyFloat(v) ELSE None

\* re.search(r"(\d{4})[/-](\d{1,2})[/-](\d{1,2})", due_raw)
SlashDate(text) ==
    IF \E j \in 1..Len(text.toks) : text.toks[j].t = "date" /\ text.toks[j].sep = "slash"
    THEN text.toks[Min({j \in 1..Len(text.toks) :
                          text.toks[j].t = "date" /\ text.toks[j].sep = "slash"})]
    ELSE None

\* _guess_tool_name(doc): the keyword lines, then the whole text
guess_tool_name(doc) ==
    IF ToolScan(Lines(doc.text), 1) # None THEN ToolScan(Lines(doc.text), 1)
    ELSE IF Candidates(doc.text.toks) # <<>> THEN Longest(Candidates(doc.text.toks))
    ELSE None

extract_fields_main(doc) ==
    LET company == entity_text(doc, best_entity(doc.entities, CandCompanyMain))
        subtotal == parse_amount(entity_text(doc, best_entity(doc.entities, CandSubtotalMain)))
        total == parse_amount(entity_text(doc, best_entity(doc.entities, CandTotalMain)))
        tax_val == parse_amount(entity_text(doc, best_entity(doc.entities, CandTaxMain)))
        due_raw == entity_text(doc, best_entity(doc.entities, CandDueMain))
        m == IF Truthy(due_raw) THEN SlashDate(due_raw) ELSE None
    IN  Dict([company |-> company,
              tool |-> guess_tool_name(doc),
              department |-> DepartmentGuess(doc.text.toks),
              amount_excl_tax |-> FloatOrNone(subtotal),
              amount_incl_tax |-> FloatOrNone(total),
              tax_amount |-> IF subtotal # None /\ total # None
                             THEN PyFloat(DecSub(total, subtotal))
                             ELSE FloatOrNone(tax_val),
              due_date |-> IF m = None THEN None
                           ELSE CatchAll(IsoDate(m.y, m.mo, m.d), None)])

\* str(x) of an entity text, as Decimal sees it: a lone amount spells its
\* characters, any other text holds characters Decimal rejects
Spell(x) ==
    IF x = None THEN None
    ELSE IF Len(x.toks) = 1 /\ x.toks[1].t = "amt" THEN Str(x.toks[1].s)
    ELSE Str(<<"Y">>)

extract_fields_utils(doc) ==
    LET vendor == entity_text(doc, best_entity(doc.entities, CandCompanyUtils))
        subtotal == to_decimal_utils(
                        Spell(entity_text(doc, best_entity(doc.entities, CandSubtotalUtils))))
        total == to_decimal_utils(
                     Spell(entity_text(doc, best_entity(doc.entities, CandTotalUtils))))
        due_raw == entity_text(doc, best_entity(doc.entities, CandDueUtils))
        m == IF Truthy(due_raw) THEN SlashDate(due_raw) ELSE None
        due == IF m = None THEN None ELSE IsoDate(m.y, m.mo, m.d)
    IN  IF IsRaise(due) THEN due
        ELSE Dict([vendor |-> vendor, tool |-> None,
                   subtotal |-> FloatIfTruthy(subtotal),
                   total |-> FloatIfTruthy(total),
                   due_date |-> due, invoice_date |-> None])

(***************************************************************************)
(* The extractors as operations.                                           *)
(***************************************************************************)
AmountToken == Amt(<<"1", ",", "0", "0", "0">>)

AmountToken2 == Amt(<<"1", ",", "1", "0", "0">>)

ExtractTokens ==
    {Co(NameA), Kw("total"), Kw("subtotal"), Kw("tax"), Kw("due"), Kw("item"),
     Kw("dept"), AmountToken, AmountToken2, Commas, Date(2025, 9, 30), Date(2025, 6, 31),
     Md(2, 29), Md(13, 1), Nl}

DocTokens == {Co(NameA), AmountToken, DateS(2025, 13, 40), Nl}

DocMentions ==
    {<<AmountToken>>, <<AmountToken2>>, <<DateS(2025, 9, 30)>>, <<DateS(2025, 13, 40)>>}

DocTypes ==
    {Str(<<"sub", "total">>), Str(<<"total", "_", "amount">>), Str(<<"tax", "_", "amount">>),
     Str(<<"due", "_", "date">>), Str(<<"supplier", "_", "name">>)}

DocEntities ==
    [type_ : DocTypes, mention_text : DocMentions, anchor : {0}]
        \cup [type_ : DocTypes, mention_text : {<<>>}, anchor : {0, 1}]

\* datetime.now().year
Years == {2025, 2028}

InitExtract ==
    /\ pc = "call"
    /\ result = None
    /\ \/ /\ fn \in {"extract_from_text_app", "extract_from_text_parser"}
          /\ args \in [text : [toks : SeqsUpTo(ExtractTokens, MaxExtractTokens), tail : {0}],
                       year : Years]
       \/ /\ fn \in {"extract_fields_main", "extract_fields_utils"}
          /\ args \in [doc : [text : [toks : SeqsUpTo(DocTokens, MaxDocTokens), tail : {0}],
                              entities : SeqsUpTo(DocEntities, MaxDocEntities)]]

ExtractFromTextApp ==
    /\ pc = "call" /\ fn = "extract_from_text_app"
    /\ result' = extract_from_text_app(args.text)
    /\ pc' = "done"
    /\ UNCHANGED <<fn, args>>

ExtractFromTextParser ==
    /\ pc = "call" /\ fn = "extract_from_text_parser"
    /\ result' = extract_from_text_parser(args.text, args.year)
    /\ pc' = "done"
    /\ UNCHANGED <<fn, args>>

ExtractFieldsMain ==
    /\ pc = "call" /\ fn = "extract_fields_main"
    /\ result' = extract_fields_main(args.doc)
    /\ pc' = "done"
    /\ UNCHANGED <<fn, args>>

ExtractFieldsUtils ==
    /\ pc = "call" /\ fn = "extract_fields_utils"
    /\ result' = extract_fields_utils(args.doc)
    /\ pc' = "done"
    /\ UNCHANGED <<fn, args>>

NextExtract ==
    ExtractFromTextApp \/ ExtractFromTextParser \/ ExtractFieldsMain \/ ExtractFieldsUtils

SpecExtract == InitExtract /\ [][NextExtract]_vars

\* C1: every record returned by extract_fields (src/main.py) and by
\* extract_from_text (src/app/main.py) holds the seven fixed keys company,
\* tool, department, amount_excl_tax, amount_incl_tax, tax_amount and
\* due_date, for every text and entity list.
RecordKeys ==
    {"company", "tool", "department", "amount_excl_tax", "amount_incl_tax",
     "tax_amount", "due_date"}

C1_Original ==
    (pc = "done" /\ fn \in {"extract_fields_main", "extract_from_text_app"})
        => (result.t = "dict" /\ RecordKeys \subseteq DOMAIN result.d)

\* C8: the extraction functions of src/app/parser.py and
\* src/modules/document_ai_utils.py return normally for every text and entity
\* list: a malformed amount or an impossible date never raises.
C8_Original ==
    (pc = "done" /\ fn \in {"extract_from_text_parser", "extract_fields_utils"})
        => ~IsRaise(result)

(***************************************************************************)
(* process_pdf, in src/main.py, src/modules/docai_processor.py and         *)
(* src/modules/document_ai_utils.py.  The download and the recognition     *)
(* service together either raise with a message or hand back a document.   *)
(***************************************************************************)
ServiceFailed(service) == service.t = "raise"

SourceMain(bucket, name, status) ==
    [bucket |-> bucket, name |-> name, processor_id |-> "PROCESSOR_ID",
     location |-> "LOCATION", status |-> status]

process_pdf_main(bucket, name, service) ==
    IF ServiceFailed(service)
    THEN Dict([_source |->
                  [bucket |-> bucket, name |-> name, processor_id |-> "PROCESSOR_ID",
                   location |-> "LOCATION", status |-> "error",
                   error_message |-> service.msg]])
    ELSE Dict(Put(extract_fields_main(service.doc).d, "_source",
                  SourceMain(bucket, name, "success")))

process_pdf_docai(bucket, name, service, resp) ==
    IF ServiceFailed(service)
    THEN Dict([vendor |-> None, subtotal |-> None, total |-> None, due_date |-> None,
               _source |-> [bucket |-> bucket, name |-> name, status |-> "error",
                            error_message |-> service.msg]])
    ELSE Dict(Put(extract_with_gemini(service.doc.text, resp).d, "_source",
                  SourceMain(bucket, name, "success")))

process_pdf_utils(bucket, name, service) ==
    IF ServiceFailed(service) THEN Raise(service.exc)
    ELSE LET fields == extract_fields_utils(service.doc)
         IN  IF IsRaise(fields) THEN fields
             ELSE Dict(Put(fields.d, "_source", [bucket |-> bucket, name |-> name]))

Buckets == {"invoices"}

BlobNames == {"a.pdf"}

Failures ==
    {[t |-> "raise", exc |-> "GoogleAPICallError", msg |-> m] :
        m \in {"permission denied", "deadline exceeded"}}

Documents ==
    {[t |-> "doc", doc |-> d] :
        d \in [text : [toks : SeqsUpTo(DocTokens, MaxDocTokens), tail : {0}],
               entities : SeqsUpTo(DocEntities, MaxDocEntities)]}

OcrDocuments ==
    {[t |-> "doc", doc |-> [text |-> x]] :
        x \in [toks : SeqsUpTo(GeminiTokens, MaxDocTokens), tail : {0, MinTextLen}]}

InitPdf ==
    /\ pc = "call"
    /\ result = None
    /\ \/ /\ fn \in {"process_pdf_main", "process_pdf_utils"}
          /\ args \in [bucket : Buckets, name : BlobNames,
                       service : Failures \cup Documents]
       \/ /\ fn = "process_pdf_docai"
          /\ args \in [bucket : Buckets, name : BlobNames,
                       service : Failures \cup OcrDocuments, resp : GeminiResponses]

ProcessPdfMain ==
    /\ pc = "call" /\ fn = "process_pdf_main"
    /\ result' = process_pdf_main(args.bucket, args.name, args.service)
    /\ pc' = "done"
    /\ UNCHANGED <<fn, args>>

ProcessPdfDocai ==
    /\ pc = "call" /\ fn = "process_pdf_docai"
    /\ result' = process_pdf_docai(args.bucket, args.name, args.service, args.resp)
    /\ pc' = "done"
    /\ UNCHANGED <<fn, args>>

ProcessPdfUtils ==
    /\ pc = "call" /\ fn = "process_pdf_utils"
    /\ result' = process_pdf_utils(args.bucket, args.name, args.service)
    /\ pc' = "done"
    /\ UNCHANGED <<fn, args>>

NextPdf == ProcessPdfMain \/ ProcessPdfDocai \/ ProcessPdfUtils

SpecPdf == InitPdf /\ [][NextPdf]_vars

\* C2: process_pdf does not raise; when the recognition service fails it
\* returns the seven record keys, all null, with source metadata whose status
\* is "error" and which carries the error message; when the service succeeds
\* the metadata status is "success".
HasStatus(r, status) ==
    /\ "_source" \in DOMAIN r.d
    /\ "status" \in DOMAIN r.d._source
    /\ r.d._source.status = status

C2_Original ==
    pc = "done" =>
        /\ ~IsRaise(result)
        /\ ServiceFailed(args.service) =>
              /\ RecordKeys \subseteq DOMAIN result.d
              /\ \A k \in RecordKeys : result.d[k] = None
              /\ HasStatus(result, "error")
              /\ result.d._source.error_message = args.service.msg
        /\ ~ServiceFailed(args.service) => HasStatus(result, "success")

(***************************************************************************)
(* _entity_text (src/main.py) and entity_text                              *)
(* (src/modules/document_ai_utils.py) as operations of their own: the      *)
(* document holds one entity, i = 0 stands for no entity.                  *)
(***************************************************************************)
NameOwn == <<"HTB", "KABU", "KAISHA">>

ResolveTokens == {Co(NameA), Co(NameOwn), Latin(<<"A", "B", "C">>), AmountToken, Nl}

MentionTokens == {Co(NameB), Latin(<<"A", "B", "C">>), Nl}

MaxMentionTokens == 2

InitResolve ==
    /\ pc = "call"
    /\ result = None
    /\ fn \in {"_entity_text", "entity_text"}
    /\ args \in [doc : [text : [toks : SeqsUpTo(ResolveTokens, MaxDocTokens), tail : {0}],
                        entities : {<<e>> : e \in
                                       [type_ : {Str(<<"supplier", "_", "name">>)},
                                        mention_text : SeqsUpTo(MentionTokens, MaxMentionTokens),
                                        anchor : 0..MaxDocTokens]}],
                 i : {0, 1}]

EntityTextMain ==
    /\ pc = "call" /\ fn = "_entity_text"
    /\ result' = entity_text(args.doc, args.i)
    /\ pc' = "done"
    /\ UNCHANGED <<fn, args>>

EntityTextUtils ==
    /\ pc = "call" /\ fn = "entity_text"
    /\ result' = entity_text(args.doc, args.i)
    /\ pc' = "done"
    /\ UNCHANGED <<fn, args>>

NextResolve == EntityTextMain \/ EntityTextUtils

SpecResolve == InitResolve /\ [][NextResolve]_vars

\* C11: the text of an entity is (1) the trimmed mention if it holds a
\* native-script character, else (2) the trimmed anchor slice if it holds
\* one, else (3) the first company name in the source text other than the
\* operator's own, else (4) the trimmed mention, null when it is empty.
NativeScript(toks) ==
    \E j \in 1..Len(toks) : toks[j].t \in {"co", "kw"}

ResolveAsClaimed(doc, i) ==
    IF i = 0 THEN None
    ELSE LET e == doc.entities[i]
             slice == IF e.anchor # 0 THEN AnchorSlice(doc, e) ELSE <<>>
         IN  IF NativeScript(e.mention_text) THEN Text(StripToks(e.mention_text))
             ELSE IF NativeScript(slice) THEN Text(StripToks(slice))
             ELSE IF CompanyNames(doc.text.toks) # <<>>
                  THEN Text(<<CompanyNames(doc.text.toks)[1]>>)
             ELSE IF StripToks(e.mention_text) # <<>> THEN Text(StripToks(e.mention_text))
             ELSE None

C11_Original ==
    pc = "done" => result = ResolveAsClaimed(args.doc, args.i)

(***************************************************************************)
(* extract_from_text, src/app/main.py lines 60-130 (the earlier version    *)
(* kept in the same file).                                                 *)
(***************************************************************************)
\* what ([\d\s,\.]+) captures from token i on: the group runs over the white
\* space between tokens for as long as whole tokens belong to it
RECURSIVE GroupRun(_, _)
GroupRun(toks, i) ==
    IF i > Len(toks) THEN <<>>
    ELSE LET run == RunAtStart(toks[i], Digits \cup {",", "."})
             whole == \/ toks[i] = Commas
                      \/ toks[i].t = "amt" /\ run = toks[i].s
         IN  IF run = <<>> THEN <<>>
             ELSE IF whole THEN run \o <<" ">> \o GroupRun(toks, i + 1)
             ELSE run

\* re.search(r"(<keyword>)[^¥￥\d]*[¥￥]?\s*([\d\s,\.]+)", joined_text): the match
\* starts at the first keyword; with no digit after it the group holds only
\* white space, commas or periods
AmountSearchApp1(toks, k) ==
    LET I == {i \in 1..Len(toks) : toks[i] = Kw(k) /\ i < Len(toks)}
    IN  IF I = {} THEN None
        ELSE IF FirstDigitAfter(toks, Min(I)) # 0
             THEN Str(GroupRun(toks, FirstDigitAfter(toks, Min(I))))
             ELSE Str(<<" ">>)

AmountFieldApp1(toks, k) ==
    IF AmountSearchApp1(toks, k) = None THEN None
    ELSE IF to_decimal_app(AmountSearchApp1(toks, k)) = None THEN None
    ELSE FormatThousands(PyInt(to_decimal_app(AmountSearchApp1(toks, k))))

\* lines 115-121: the first date found on line i, else on line i+1, else on
\* line i+2
DueMatchApp1(lines, i) ==
    IF FirstOfKind(lines[i], "date") # None THEN FirstOfKind(lines[i], "date")
    ELSE IF i + 1 <= Len(lines) /\ FirstOfKind(lines[i + 1], "date") # None
         THEN FirstOfKind(lines[i + 1], "date")
    ELSE IF i + 2 <= Len(lines) THEN FirstOfKind(lines[i + 2], "date")
    ELSE None

\* lines 112-128: break on a valid date, continue on ValueError
RECURSIVE DueScanApp1(_, _)
DueScanApp1(lines, i) ==
    IF i > Len(lines) THEN None
    ELSE IF ~HasKw(lines[i], DueKeywords) THEN DueScanApp1(lines, i + 1)
    ELSE LET m == DueMatchApp1(lines, i)
         IN  IF m # None /\ DateValid(m.y, m.mo, m.d) THEN IsoDate(m.y, m.mo, m.d)
             ELSE DueScanApp1(lines, i + 1)

extract_from_text_app1(text) ==
    IF TextLen(text) = 0
    THEN Dict([company |-> None, tool |-> None, department |-> None,
               amount_excl_tax |-> None, amount_incl_tax |-> None, due_date |-> None])
    ELSE Dict([company |-> CompanyFindall(text.toks), tool |-> None, department |-> None,
               amount_excl_tax |-> AmountFieldApp1(Joined(text), "subtotal"),
               amount_incl_tax |-> AmountFieldApp1(Joined(text), "total"),
               due_date |-> DueScanApp1(Lines(text), 1)])

(***************************************************************************)
(* The text extractors on texts long enough to hold a keyword line and     *)
(* three lines below it.                                                   *)
(***************************************************************************)
MaxDueTokens == 7

DueTokens == {Kw("due"), Nl, Date(2025, 9, 30), Date(2025, 6, 31), Co(NameA)}

DueTexts == [toks : SeqsUpTo(DueTokens, MaxDueTokens), tail : {0}]

InitDue ==
    /\ pc = "call"
    /\ result = None
    /\ \/ /\ fn \in {"extract_from_text_app1", "extract_from_text_app"}
          /\ args \in [text : DueTexts]
       \/ /\ fn = "extract_from_text_parser"
          /\ args \in [text : DueTexts, year : Years]

ExtractFromTextApp1 ==
    /\ pc = "call" /\ fn = "extract_from_text_app1"
    /\ result' = extract_from_text_app1(args.text)
    /\ pc' = "done"
    /\ UNCHANGED <<fn, args>>

NextDue == ExtractFromTextApp1 \/ ExtractFromTextApp \/ ExtractFromTextParser

SpecDue == InitDue /\ [][NextDue]_vars

\* the first 4-digit-year date of a line is a calendar date
ValidDateOn(line) ==
    /\ FirstOfKind(line, "date") # None
    /\ DateValid(FirstOfKind(line, "date").y, FirstOfKind(line, "date").mo,
                 FirstOfKind(line, "date").d)

DateOn(line) ==
    IsoDate(FirstOfKind(line, "date").y, FirstOfKind(line, "date").mo,
            FirstOfKind(line, "date").d)

\* the places (keyword line i, offset j) whose line holds a valid date
WindowHits(lines) ==
    {ij \in (1..Len(lines)) \X (0..2) :
        /\ HasKw(lines[ij[1]], DueKeywords)
        /\ ij[1] + ij[2] <= Len(lines)
        /\ ValidDateOn(lines[ij[1] + ij[2]])}

\* C12: a date is accepted when it is on a due-date keyword line or on one of
\* the two lines below it, and not when it first appears three lines below
\* with no keyword in between: due_date is resolved exactly when some keyword
\* line has a valid date within that window, and then it is one of those dates.
C12_Original ==
    (pc = "done" /\ fn \in {"extract_from_text_app", "extract_from_text_parser"}) =>
        /\ result.t = "dict"
        /\ (WindowHits(Lines(args.text)) # {}) <=> (result.d.due_date # None)
        /\ result.d.due_date # None =>
              \E ij \in WindowHits(Lines(args.text)) :
                  result.d.due_date = DateOn(Lines(args.text)[ij[1] + ij[2]])

\* C13: the due date is the first valid date in scan order (keyword lines top
\* to bottom, each with its window of three lines); invalid dates are skipped;
\* it is null only when no keyword line's window holds a valid date.
FirstHit(lines) ==
    CHOOSE ij \in WindowHits(lines) :
        \A kl \in WindowHits(lines) :
            ij[1] < kl[1] \/ (ij[1] = kl[1] /\ ij[2] <= kl[2])

C13_Original ==
    pc = "done" =>
        /\ result.t = "dict"
        /\ result.d.due_date =
              IF WindowHits(Lines(args.text)) = {} THEN None
              ELSE LET ij == FirstHit(Lines(args.text))
                   IN  DateOn(Lines(args.text)[ij[1] + ij[2]])

\* C14: whenever the subtotal and the total of a record are both resolved,
\* tax_amount is total minus subtotal; when one of them is missing and the
\* input has no tax entity (src/main.py) or tax keyword (src/app/parser.py),
\* tax_amount is null.
MaxExp(a, b, c) ==
    IF a.e >= b.e /\ a.e >= c.e THEN a.e ELSE IF b.e >= c.e THEN b.e ELSE c.e

IsDifference(tax, total, subtotal) ==
    /\ tax # None
    /\ Signed(tax, MaxExp(tax, total, subtotal))
          = Signed(total, MaxExp(tax, total, subtotal))
              - Signed(subtotal, MaxExp(tax, total, subtotal))

HasTaxSource ==
    IF fn = "extract_fields_main"
    THEN best_entity(args.doc.entities, CandTaxMain) # 0
    ELSE \E j \in 1..Len(args.text.toks) : args.text.toks[j] = Kw("tax")

C14_Original ==
    (pc = "done" /\ fn \in {"extract_fields_main", "extract_from_text_parser"}
        /\ result.t = "dict") =>
        LET r == result.d
        IN  /\ (r.amount_excl_tax # None /\ r.amount_incl_tax # None)
                  => IsDifference(r.tax_amount, r.amount_incl_tax, r.amount_excl_tax)
            /\ ((r.amount_excl_tax = None \/ r.amount_incl_tax = None) /\ ~HasTaxSource)
                  => r.tax_amount = None

(***************************************************************************)
(* The vendor classifier: normalize_vendor and classify_company            *)
(* (src/function/main.py), normalize_vendor and find_vendor_exact          *)
(* (src/update_kintone_from_docai.py), normalize_vendor                    *)
(* (src/modules/kintone_client.py).  Names are the symbol sequences of     *)
(* normalize_vendor_name.                                                  *)
(***************************************************************************)
\* re.sub over 株式会社 and the one-character forms in singles, left to right,
\* one pass
RECURSIVE RemoveKabushiki(_, _)
RemoveKabushiki(s, singles) ==
    IF s = <<>> THEN <<>>
    ELSE IF Len(s) >= 2 /\ s[1] = "KABU" /\ s[2] = "KAISHA"
         THEN RemoveKabushiki(SubSeq(s, 3, Len(s)), singles)
    ELSE IF s[1] \in singles THEN RemoveKabushiki(Tail(s), singles)
    ELSE <<s[1]>> \o RemoveKabushiki(Tail(s), singles)

\* src/function/main.py:13-18
normalize_vendor_function(name) ==
    IF ~Truthy(name) THEN Str(<<>>)
    ELSE Str(Strip(RemoveSpace(RemoveKabushiki(name.s, {"PK", "MK"}))))

\* src/update_kintone_from_docai.py:19-25
normalize_vendor_update(name) ==
    IF ~Truthy(name) THEN Str(<<>>)
    ELSE Str(RemoveSpace(RemoveKabushiki(name.s, {"PK", "MK"})))

\* src/modules/kintone_client.py:44-77
normalize_vendor_client(name) ==
    IF ~Truthy(name) THEN Raise("ValueError")
    ELSE IF RemoveSpace(RemoveKabushiki(name.s, {"PK", "MK", "AK"})) = <<>>
         THEN Raise("ValueError")
    ELSE Str(RemoveSpace(RemoveKabushiki(name.s, {"PK", "MK", "AK"})))

\* the registry file: [t |-> "list", items |-> the entries], or a file that
\* cannot be read
LoadFailed(master) == IsRaise(master)

\* a variant that returns the last matching entry
classify_company_last(company_name, master) ==
    IF ~Truthy(company_name) \/ LoadFailed(master) THEN None
    ELSE LET I == {i \in 1..Len(master.items) :
                      /\ normalize_vendor_function(master.items[i].vendor).s # <<>>
                      /\ normalize_vendor_function(master.items[i].vendor)
                            = normalize_vendor_function(company_name)}
         IN  IF I = {} THEN None ELSE master.items[CHOOSE i \in I : \A j \in I : j <= i]

\* src/function/main.py:20-35
classify_company(company_name, master) ==
    IF ~Truthy(company_name) \/ LoadFailed(master) THEN None
    ELSE LET I == {i \in 1..Len(master.items) :
                      /\ normalize_vendor_function(master.items[i].vendor).s # <<>>
                      /\ normalize_vendor_function(master.items[i].vendor)
                            = normalize_vendor_function(company_name)}
         IN  IF I = {} THEN None ELSE master.items[Min(I)]

\* src/update_kintone_from_docai.py:33-39
find_vendor_exact(vendor_name, master) ==
    LET I == {i \in 1..Len(master.items) :
                 normalize_vendor_update(master.items[i].vendor)
                     = normalize_vendor_update(vendor_name)}
    IN  IF I = {} THEN None ELSE master.items[Min(I)]

MaxRegistry == 2

VendorNames ==
    {<<>>, <<"A">>, <<"KABU", "KAISHA", "A">>, <<"MK", " ", "A">>, <<"KABU", "KAISHA", "A", "2">>,
     <<"KABU", "KAISHA">>, <<"B">>}

Registries ==
    {[t |-> "list", items |-> r] :
        r \in SeqsUpTo([vendor : {Str(n) : n \in VendorNames}], MaxRegistry)}

InitClassify ==
    /\ pc = "call"
    /\ result = None
    /\ \/ /\ fn = "classify_company"
          /\ args \in [name : {None} \cup {Str(n) : n \in VendorNames},
                       master : Registries \cup {Raise("FileNotFoundError")}]
       \/ /\ fn = "find_vendor_exact"
          /\ args \in [name : {None} \cup {Str(n) : n \in VendorNames},
                       master : Registries]

ClassifyCompany ==
    /\ pc = "call" /\ fn = "classify_company"
    /\ result' = classify_company(args.name, args.master)
    /\ pc' = "done"
    /\ UNCHANGED <<fn, args>>

FindVendorExact ==
    /\ pc = "call" /\ fn = "find_vendor_exact"
    /\ result' = find_vendor_exact(args.name, args.master)
    /\ pc' = "done"
    /\ UNCHANGED <<fn, args>>

NextClassify == ClassifyCompany \/ FindVendorExact

SpecClassify == InitClassify /\ [][NextClassify]_vars

\* the normalizer each classifier uses
NormalizedBy(f, name) ==
    IF f = "classify_company" THEN normalize_vendor_function(name)
    ELSE normalize_vendor_update(name)

\* the entries whose normalized vendor equals the normalized input
EqualEntries ==
    {i \in 1..Len(args.master.items) :
        NormalizedBy(fn, args.master.items[i].vendor) = NormalizedBy(fn, args.name)}

\* C15 as stated: the classifier returns the first registry entry whose
\* normalized vendor equals the normalized input, and null when none does.
C15_Original ==
    (pc = "done" /\ ~LoadFailed(args.master)) =>
        result = IF EqualEntries = {} THEN None ELSE args.master.items[Min(EqualEntries)]

\* C15 amended: find_vendor_exact returns the first entry whose normalized
\* vendor equals the normalized input; classify_company returns the first
\* such entry whose normalized vendor is not empty, and null when the
\* registry cannot be read; both return null when there is no such entry.
NonEmptyEqualEntries ==
    {i \in EqualEntries : NormalizedBy(fn, args.master.items[i].vendor).s # <<>>}

C15_FirstExactMatch ==
    pc = "done" =>
        result =
            IF LoadFailed(args.master) THEN None
            ELSE IF fn = "find_vendor_exact"
                 THEN (IF EqualEntries = {} THEN None ELSE args.master.items[Min(EqualEntries)])
            ELSE IF NonEmptyEqualEntries = {} THEN None
            ELSE args.master.items[Min(NonEmptyEqualEntries)]

\* two entries match the input and the first one is returned
C15_Witness ==
    /\ pc = "done"
    /\ fn = "classify_company"
    /\ args.name = Str(<<"KABU", "KAISHA", "A">>)
    /\ args.master.t = "list"
    /\ Len(args.master.items) = 2
    /\ args.master.items[1].vendor = Str(<<"A">>)
    /\ args.master.items[2].vendor = Str(<<"MK", " ", "A">>)
    /\ result = args.master.items[1]

(***************************************************************************)
(* The vendor normalizers as operations.                                   *)
(***************************************************************************)
MaxNameLen == 4

NameSymbols == {"KABU", "KAISHA", "PK", " ", "RI", "N", "KU", "A"}

InitNormalize ==
    /\ pc = "call"
    /\ result = None
    /\ fn \in {"normalize_vendor_name", "normalize_vendor_function", "normalize_vendor_client"}
    /\ args \in [name : {None} \cup {Str(n) : n \in SeqsUpTo(NameSymbols, MaxNameLen)}]

NormalizeVendorName ==
    /\ pc = "call" /\ fn = "normalize_vendor_name"
    /\ result' = normalize_vendor_name(args.name)
    /\ pc' = "done"
    /\ UNCHANGED <<fn, args>>

NormalizeVendorFunction ==
    /\ pc = "call" /\ fn = "normalize_vendor_function"
    /\ result' = normalize_vendor_function(args.name)
    /\ pc' = "done"
    /\ UNCHANGED <<fn, args>>

NormalizeVendorClient ==
    /\ pc = "call" /\ fn = "normalize_vendor_client"
    /\ result' = normalize_vendor_client(args.name)
    /\ pc' = "done"
    /\ UNCHANGED <<fn, args>>

NextNormalize == NormalizeVendorName \/ NormalizeVendorFunction \/ NormalizeVendorClient

SpecNormalize == InitNormalize /\ [][NextNormalize]_vars

\* the normalizer that produced the result, applied to a value
Renormalized(v) ==
    CASE fn = "normalize_vendor_name" -> normalize_vendor_name(v)
      [] fn = "normalize_vendor_function" -> normalize_vendor_function(v)
      [] fn = "normalize_vendor_client" -> normalize_vendor_client(v)

\* C16: a normalized name is a fixed point of its normalizer:
\* normalize(normalize(x)) = normalize(x) for every name x the normalizer
\* accepts.
C16_Original ==
    (pc = "done" /\ ~IsRaise(result)) => Renormalized(result) = result

(***************************************************************************)
(* push_from_docai (src/update_kintone_from_docai.py) and                  *)
(* on_file_finalized (src/function/main.py).  An invocation ends in an     *)
(* outcome: what it returned or raised, the records the bookkeeping system *)
(* accepted, the files it saved and the lines it logged.                   *)
(***************************************************************************)
Outcome(ret, pushed, saved, log) ==
    [ret |-> ret, pushed |-> pushed, saved |-> saved, log |-> log]

\* validate_docai_result: null, or the ValueError it raises
validate_docai_result(r) ==
    IF \E k \in {"vendor", "amount_excl_tax", "amount_incl_tax", "due_date"} :
           ~Truthy(Get(r, k))
    THEN Raise("ValueError")
    ELSE IF \E k \in {"amount_excl_tax", "amount_incl_tax"} : IsRaise(PyFloat(r[k]))
         THEN Raise("ValueError")
    ELSE IF r.due_date.t # "iso" THEN Raise("ValueError")
    ELSE None

\* str(v) of a string or of an integer
PyStr(v) == IF v.t = "str" THEN v ELSE Str(NumStr(v.m))

\* the record sent to the bookkeeping system, lines 112-121
KintoneRecord(hit, r) ==
    [vendor |-> hit.vendor,
     amount_excl_tax |-> PyStr(r.amount_excl_tax),
     amount_incl_tax |-> PyStr(r.amount_incl_tax),
     due_date |-> r.due_date]

\* add_kintone_record: the record is accepted on status 200, else RuntimeError
add_kintone_record(record, status) ==
    IF status = 200 THEN Outcome(None, <<record>>, <<>>, <<"added">>)
    ELSE Outcome(Raise("RuntimeError"), <<>>, <<>>, <<>>)

\* a variant that pushes the extracted vendor when the registry has no match
push_from_docai_unmatched(r, master, status) ==
    IF IsRaise(validate_docai_result(r))
    THEN Outcome(validate_docai_result(r), <<>>, <<>>, <<"invalid">>)
    ELSE IF LoadFailed(master) THEN Outcome(master, <<>>, <<>>, <<>>)
    ELSE add_kintone_record(
             KintoneRecord(IF find_vendor_exact(r.vendor, master) = None
                           THEN [vendor |-> r.vendor]
                           ELSE find_vendor_exact(r.vendor, master), r), status)

\* src/update_kintone_from_docai.py:92-124
push_from_docai(r, master, status) ==
    IF IsRaise(validate_docai_result(r))
    THEN Outcome(validate_docai_result(r), <<>>, <<>>, <<"invalid">>)
    ELSE IF LoadFailed(master) THEN Outcome(master, <<>>, <<>>, <<>>)
    ELSE IF find_vendor_exact(r.vendor, master) = None
         THEN Outcome(Raise("LookupError"), <<>>, <<>>, <<"unregistered">>)
    ELSE add_kintone_record(KintoneRecord(find_vendor_exact(r.vendor, master), r), status)

\* src/function/main.py:37-67; pdf is what process_pdf returned or raised
\* store tells whether the upload of the JSON result succeeds
on_file_finalized_function(name, pdf, master, master2, status, store) ==
    IF IsRaise(pdf) THEN Outcome(pdf, <<>>, <<>>, <<"error">>)
    ELSE IF classify_company(Get(pdf.d, "vendor"), master) = None
         THEN Outcome(None, <<>>, <<>>, <<"unregistered">>)
    ELSE LET pushed == push_from_docai(pdf.d, master2, status)
         IN  IF IsRaise(pushed.ret)
             THEN Outcome(pushed.ret, pushed.pushed, <<>>, pushed.log \o <<"error">>)
             ELSE IF store # "ok"
                  THEN Outcome(Raise("GoogleAPICallError"), pushed.pushed, <<>>,
                               pushed.log \o <<"error">>)
             ELSE Outcome(None, pushed.pushed, <<[name |-> name, data |-> pdf.d]>>,
                          pushed.log \o <<"done">>)

PushNames == {<<"A">>, <<"KABU", "KAISHA", "A">>, <<"B">>}

PushRegistries ==
    {[t |-> "list", items |-> r] :
        r \in SeqsUpTo([vendor : {Str(n) : n \in PushNames}], MaxRegistry)}
        \cup {Raise("FileNotFoundError")}

PushVendors == {None, Str(<<"A">>), Str(<<"KABU", "KAISHA", "A">>), Str(<<"B">>), Str(<<"C">>)}

\* the records handed to push_from_docai
DocaiResults ==
    [vendor : PushVendors,
     amount_excl_tax : {None, Num(0), Num(10), Str(<<"Y">>)},
     amount_incl_tax : {None, Num(10), Str(<<"1", "1">>)},
     due_date : {None, Str(<<"Y">>), [t |-> "iso", y |-> 2025, mo |-> 9, d |-> 30]}]

\* what process_pdf of src/modules/document_ai_utils.py returns or raises
PdfResults ==
    {Raise("GoogleAPICallError")} \cup
    {Dict([vendor |-> v, tool |-> None, subtotal |-> Num(10), total |-> Num(10),
           due_date |-> [t |-> "iso", y |-> 2025, mo |-> 9, d |-> 30],
           invoice_date |-> None, _source |-> [bucket |-> "invoices", name |-> "a.pdf"]]) :
        v \in PushVendors}

InitPush ==
    /\ pc = "call"
    /\ result = None
    /\ \/ /\ fn = "push_from_docai"
          /\ args \in [r : DocaiResults, master : PushRegistries, status : {200, 500}]
       \/ /\ fn = "on_file_finalized"
          /\ args \in [name : BlobNames, pdf : PdfResults, master : PushRegistries,
                       master2 : PushRegistries, status : {200, 500},
                       store : {"ok", "fail"}]

PushFromDocai ==
    /\ pc = "call" /\ fn = "push_from_docai"
    /\ result' = push_from_docai(args.r, args.master, args.status)
    /\ pc' = "done"
    /\ UNCHANGED <<fn, args>>

OnFileFinalizedFunction ==
    /\ pc = "call" /\ fn = "on_file_finalized"
    /\ result' = on_file_finalized_function(args.name, args.pdf, args.master,
                                            args.master2, args.status, args.store)
    /\ pc' = "done"
    /\ UNCHANGED <<fn, args>>

NextPush == PushFromDocai \/ OnFileFinalizedFunction

SpecPush == InitPush /\ [][NextPush]_vars

\* classification found no registry match: the record was valid and the
\* registry readable (push_from_docai), or the document was read
\* (on_file_finalized), and no entry matched the vendor
Unregistered ==
    IF fn = "push_from_docai"
    THEN /\ ~IsRaise(validate_docai_result(args.r))
         /\ ~LoadFailed(args.master)
         /\ find_vendor_exact(args.r.vendor, args.master) = None
    ELSE /\ ~IsRaise(args.pdf)
         /\ classify_company(Get(args.pdf.d, "vendor"), args.master) = None

MaxInvocations == 2

Invocations == 1..MaxInvocations

DocFiles ==
    {[dir |-> "a", stem |-> "x", ext |-> ".pdf"],
     [dir |-> "b", stem |-> "x", ext |-> ".pdf"],
     [dir |-> "a", stem |-> "y", ext |-> ".PDF"],
     [dir |-> "b", stem |-> "z", ext |-> ".pdf"]}

\* d.get(k, default)
GetOr(d, k, default) == IF k \in DOMAIN d THEN d[k] ELSE default

\* base = name.rsplit("/", 1)[-1]; re.sub(r"\.pdf$", "", base, flags=re.I) + ".json"
JsonName(file) ==
    [stem |-> file.stem,
     ext |-> IF file.ext \in {".pdf", ".PDF"} THEN ".json" ELSE file.ext \o ".json"]

\* f"Billing_Tracking_{today}.csv"
CsvName(today) == [stem |-> "Billing_Tracking", day |-> today, ext |-> ".csv"]

\* datetime.strptime(s, "%Y-%m-%d").strftime("%Y/%m/%d")
SlashFormat(v) ==
    IF v.t = "iso" THEN [t |-> "ymd", y |-> v.y, mo |-> v.mo, d |-> v.d]
    ELSE Raise("ValueError")

\* int(v): a number is cut to its integer part; a string must spell an integer
PyIntOf(v) ==
    IF v.t \in {"num", "dec"} THEN Num(PyInt(v))
    ELSE IF v.t = "str" /\ Strip(v.s) # <<>> /\ \A i \in 1..Len(Strip(v.s)) : Strip(v.s)[i] \in Digits
         THEN Num(Horner(0, Strip(v.s)))
    ELSE Raise("ValueError")

\* f"{n:,}" of what int() returned
FormatInt(n) == IF IsRaise(n) THEN n ELSE FormatThousands(n.m)

AmountCell(data, k) ==
    IF Truthy(GetOr(data, k, None)) THEN FormatInt(PyIntOf(data[k])) ELSE Str(<<>>)

\* the row of save_daily_csv, src/modules/csv_utils.py:25-34
CsvRow(data) ==
    <<GetOr(data, "company", Str(<<>>)), GetOr(data, "tool", Str(<<>>)),
      GetOr(data, "department", Str(<<>>)),
      AmountCell(data, "amount_excl_tax"), AmountCell(data, "amount_incl_tax"),
      "approved",
      IF Truthy(GetOr(data, "due_date", None)) THEN SlashFormat(data.due_date)
      ELSE Str(<<>>)>>

\* the file save_daily_csv uploads: the header and one row
CsvFile(data) == <<"header", CsvRow(data)>>

\* what process_pdf returns for a document: the extracted due date is an
\* input, _source names the document
ExtractedUtils(file, due) ==
    [vendor |-> Str(NameA), tool |-> None, subtotal |-> Num(10), total |-> Num(11),
     due_date |-> due, invoice_date |-> None,
     _source |-> [bucket |-> "invoices", name |-> file]]

ExtractedMain(file, due) ==
    [company |-> Str(NameA), tool |-> None, department |-> None,
     amount_excl_tax |-> Num(10), amount_incl_tax |-> Num(11), tax_amount |-> Num(1),
     due_date |-> due, _source |-> SourceMain("invoices", file, "success")]

Extracted(handler, file, due) ==
    IF handler = "functions/main.py" THEN ExtractedUtils(file, due)
    ELSE ExtractedMain(file, due)

DueDates ==
    {[t |-> "iso", y |-> 2025, mo |-> 9, d |-> 30],
     [t |-> "iso", y |-> 2025, mo |-> 10, d |-> 31]}

InitConcurrent ==
    /\ pc = [i \in Invocations |-> "start"]
    /\ fn \in [Invocations -> {"functions/main.py", "main.py"}]
    /\ args \in [Invocations -> [file : DocFiles, due : DueDates, today : {20251104, 20251105}]]
    /\ \A i, j \in Invocations : i # j => args[i].file # args[j].file
    /\ result = <<>>

\* result = process_pdf(bucket, name)
ProcessPdfStep(i) ==
    /\ pc[i] = "start"
    /\ pc' = [pc EXCEPT ![i] = "extracted"]
    /\ UNCHANGED <<fn, args, result>>

\* save_daily_csv(result, OUTPUT_BUCKET)
SaveDailyCsv(i) ==
    /\ pc[i] = "extracted" /\ fn[i] = "functions/main.py"
    /\ result' = Put(result, CsvName(args[i].today),
                     CsvFile(Extracted(fn[i], args[i].file, args[i].due)))
    /\ pc' = [pc EXCEPT ![i] = "done"]
    /\ UNCHANGED <<fn, args>>

\* save_json(target_bucket, name, result)
SaveJson(i) ==
    /\ pc[i] = "extracted" /\ fn[i] = "main.py"
    /\ result' = Put(result, JsonName(args[i].file),
                     Extracted(fn[i], args[i].file, args[i].due))
    /\ pc' = [pc EXCEPT ![i] = "done"]
    /\ UNCHANGED <<fn, args>>

NextConcurrent ==
    \E i \in Invocations : ProcessPdfStep(i) \/ SaveDailyCsv(i) \/ SaveJson(i)

SpecConcurrent == InitConcurrent /\ [][NextConcurrent]_vars

\* the object an invocation writes and its content when it runs alone
OutputName(i) ==
    IF fn[i] = "functions/main.py" THEN CsvName(args[i].today) ELSE JsonName(args[i].file)

OutputAlone(i) ==
    IF fn[i] = "functions/main.py"
    THEN CsvFile(Extracted(fn[i], args[i].file, args[i].due))
    ELSE Extracted(fn[i], args[i].file, args[i].due)

\* C18: once every invocation has ended, the output of each document is in
\* the bucket and equals what the invocation writes when it runs alone.
C18_Original ==
    (\A i \in Invocations : pc[i] = "done") =>
        \A i \in Invocations :
            /\ OutputName(i) \in DOMAIN result
            /\ result[OutputName(i)] = OutputAlone(i)

(***************************************************************************)
(* The Kintone pusher: KintoneClient.validate_record_data and              *)
(* create_record (src/modules/kintone_client.py), on_json_finalized and    *)
(* save_error_file (src/functions/kintone-pusher/main.py).                 *)
(***************************************************************************)
\* validate_amount: None, the float, or the ValueError it raises
\* Decimal(str(value)) of a string: "NaN" spells the decimal not-a-number
DecimalOfStr(s) == IF Strip(s) = <<"NaN">> THEN [t |-> "nan"] ELSE DecimalCtor(s)

\* float(...), then the test amount < 0, which is false of nan
NonNegative(d) ==
    IF IsRaise(d) THEN Raise("ValueError")
    ELSE IF d.t = "nan" THEN d
    ELSE IF d.neg /\ d.m # 0 THEN Raise("ValueError")
    ELSE [t |-> "num", neg |-> d.neg, m |-> d.m, e |-> d.e]

validate_amount(value) ==
    IF value = None \/ value = Str(<<>>) THEN None
    ELSE NonNegative(IF value.t = "str" THEN DecimalOfStr(value.s) ELSE PyFloat(value))

\* validate_date: "", the date string, the ValueError raised for a string
\* that is not a date, or the TypeError re.match raises for a non-string
validate_date(date_str) ==
    IF ~Truthy(date_str) THEN Str(<<>>)
    ELSE IF date_str.t = "iso"
         THEN IF DateValid(date_str.y, date_str.mo, date_str.d) THEN date_str
              ELSE Raise("ValueError")
    ELSE IF date_str.t = "str" THEN Raise("ValueError")
    ELSE Raise("TypeError")

\* the messages validate_record_data appends to errors, in order
ValidationErrors(data) ==
    (IF ~Truthy(Get(data, "vendor")) THEN <<"vendor missing">>
     ELSE IF IsRaise(normalize_vendor_client(data.vendor)) THEN <<"vendor">>
     ELSE <<>>)
    \o (IF IsRaise(validate_amount(Get(data, "subtotal"))) THEN <<"subtotal">> ELSE <<>>)
    \o (IF IsRaise(validate_amount(Get(data, "total"))) THEN <<"total">> ELSE <<>>)
    \o (IF IsRaise(validate_date(Get(data, "due_date"))) THEN <<"due_date">> ELSE <<>>)

KintoneValidationError(errors) ==
    [t |-> "raise", exc |-> "KintoneValidationError", errors |-> errors]

\* lines 267-277: raise when errors were collected, else return validated
Validated(data, errors) ==
    IF errors # <<>> THEN KintoneValidationError(errors)
    ELSE Dict([vendor |-> normalize_vendor_client(data.vendor),
               subtotal |-> validate_amount(Get(data, "subtotal")),
               total |-> validate_amount(Get(data, "total")),
               due_date |-> validate_date(Get(data, "due_date"))])

\* src/modules/kintone_client.py:219-288; data is what json.loads returned.
\* An exception other than ValueError (data without .get, a vendor or a
\* due date that is not a string) is wrapped by the outer handler.
validate_record_data(data) ==
    IF data.t # "dict" THEN KintoneValidationError(<<"unexpected">>)
    ELSE IF Truthy(Get(data.d, "vendor")) /\ Get(data.d, "vendor").t # "str"
         THEN KintoneValidationError(<<"unexpected">>)
    ELSE IF validate_date(Get(data.d, "due_date")) = Raise("TypeError")
         THEN KintoneValidationError(<<"unexpected">>)
    ELSE Validated(data.d, ValidationErrors(data.d))

\* the digits after the period in str(float), most significant first
RECURSIVE FracStr(_, _)
FracStr(f, e) ==
    IF e = 0 THEN <<>> ELSE FracStr(f \div 10, e - 1) \o <<DigitSeq[(f % 10) + 1]>>

RECURSIVE RStripZeros(_)
RStripZeros(s) ==
    IF s # <<>> /\ s[Len(s)] = "0" THEN RStripZeros(SubSeq(s, 1, Len(s) - 1)) ELSE s

\* str(v or ""): the repr of a non-zero float, "" for None and for 0.0
FloatOrEmptyStr(v) ==
    IF ~Truthy(v) THEN Str(<<>>)
    ELSE IF v.t = "nan" THEN Str(<<"n", "a", "n">>)
    ELSE LET frac == RStripZeros(FracStr(v.m % Pow10(v.e), v.e))
         IN  Str(NumStr(v.m \div Pow10(v.e)) \o <<".">> \o
                 (IF frac = <<>> THEN <<"0">> ELSE frac))

\* the "record" part of the payload, lines 309-317
Payload(validated) ==
    [vendor |-> validated.vendor,
     subtotal |-> FloatOrEmptyStr(validated.subtotal),
     total |-> FloatOrEmptyStr(validated.total),
     due_date |-> validated.due_date]

\* int(record_id) of the id in the response body
RecordId(id) ==
    IF id.t = "num" THEN id
    ELSE IF id.s # <<>> /\ \A i \in 1..Len(id.s) : id.s[i] \in Digits
         THEN Num(Horner(0, id.s))
    ELSE Raise("ValueError")

\* lines 323-361: what the call returns or raises once the request is sent.
\* response is what requests.post met: a time-out, a connection failure,
\* or a reply with a status and a body; a body that is not JSON makes
\* response.json() raise requests' JSONDecodeError, a RequestException.
ApiResult(response) ==
    IF response.kind \in {"timeout", "connection"} THEN Raise("KintoneAPIError")
    ELSE IF response.status >= 400 THEN Raise("KintoneAPIError")
    ELSE IF IsRaise(response.body) THEN Raise("KintoneAPIError")
    ELSE IF response.body.t # "dict" THEN Raise("AttributeError")
    ELSE IF ~Truthy(Get(response.body.d, "id")) THEN Raise("KintoneAPIError")
    ELSE RecordId(response.body.d.id)

\* lines 305-361: nothing is sent when the validation raised
Request(validated_data, response) ==
    IF IsRaise(validated_data) THEN [ret |-> validated_data, sent |-> <<>>]
    ELSE [ret |-> ApiResult(response), sent |-> <<Payload(validated_data.d)>>]

\* src/modules/kintone_client.py:290-361: what create_record returned or
\* raised, and the requests it sent
create_record(data, response) == Request(validate_record_data(data), response)

\* src/functions/kintone-pusher/main.py:115-154: the files in the error
\* bucket afterwards; a failed upload is logged and nothing is raised
save_error_file(original_file_name, json_data, error, upload) ==
    IF upload = "ok"
    THEN <<[name |-> [dir |-> "validation_errors", file |-> original_file_name],
            data |-> [error |-> error.errors, original_data |-> json_data,
                      source_file |-> original_file_name]]>>
    ELSE <<>>

\* file_name.lower().endswith(".json")
IsJsonName(file_name) == file_name.ext \in {".json", ".JSON", ".Json"}

\* a variant that re-raises the validation error
Routed_reraises(file_name, json_data, env, upload, created) ==
    IF ~IsRaise(created.ret) THEN Outcome(None, created.sent, <<>>, <<"created">>)
    ELSE IF created.ret.exc = "KintoneValidationError"
         THEN Outcome(created.ret, created.sent,
                      IF env.error_bucket
                      THEN save_error_file(file_name, json_data, created.ret, upload)
                      ELSE <<>>,
                      <<"validation error">>)
    ELSE IF created.ret.exc = "KintoneAPIError"
         THEN Outcome(created.ret, created.sent, <<>>, <<"api error">>)
    ELSE Outcome(created.ret, created.sent, <<>>, <<"unexpected">>)

\* lines 66-98 and 106-112: the handlers around client.create_record;
\* created is what the call returned or raised
Routed(file_name, json_data, env, upload, created) ==
    IF ~IsRaise(created.ret) THEN Outcome(None, created.sent, <<>>, <<"created">>)
    ELSE IF created.ret.exc = "KintoneValidationError"
         THEN Outcome(None, created.sent,
                      IF env.error_bucket
                      THEN save_error_file(file_name, json_data, created.ret, upload)
                      ELSE <<>>,
                      <<"validation error">>)
    ELSE IF created.ret.exc = "KintoneAPIError"
         THEN Outcome(created.ret, created.sent, <<>>, <<"api error">>)
    ELSE Outcome(created.ret, created.sent, <<>>, <<"unexpected">>)

\* src/functions/kintone-pusher/main.py:30-112.  blob is what
\* download_as_text returned (a text whose json field is what json.loads
\* makes of it) or raised; env tells which environment variables are set.
on_json_finalized(file_name, blob, env, response, upload) ==
    IF ~IsJsonName(file_name) THEN Outcome(None, <<>>, <<>>, <<"skipped">>)
    ELSE IF IsRaise(blob) THEN Outcome(blob, <<>>, <<>>, <<"unexpected">>)
    ELSE IF IsRaise(blob.json)
         THEN Outcome(None, <<>>, <<>>, <<"invalid json">>)
    ELSE IF ~env.kintone THEN Outcome(Raise("ValueError"), <<>>, <<>>, <<"unexpected">>)
    ELSE Routed(file_name, blob.json, env, upload, create_record(blob.json, response))

PusherFiles == {[stem |-> "x", ext |-> e] : e \in {".json", ".JSON", ".pdf"}}

\* the parsed content of the uploaded results
PusherData ==
    {Dict(d) :
        d \in [vendor : {None, Str(<<"KABU", "KAISHA">>), Str(<<"KABU", "KAISHA", "A">>)},
               subtotal : {Num(10), Str(<<"-", "5">>)},
               total : {Num(0), Str(<<"1", ".", "5">>), Str(<<"Y">>)},
               due_date : {None, Num(5),
                           [t |-> "iso", y |-> 2025, mo |-> 9, d |-> 30],
                           [t |-> "iso", y |-> 2025, mo |-> 9, d |-> 31]}]}
    \cup {[t |-> "list", items |-> <<>>]}

Blobs ==
    {Raise("NotFound"), Raise("UnicodeDecodeError"),
     [t |-> "text", json |-> Raise("JSONDecodeError")]}
    \cup {[t |-> "text", json |-> d] : d \in PusherData}

Responses ==
    {[kind |-> "timeout"], [kind |-> "connection"]}
    \cup {[kind |-> "reply", status |-> s, body |-> b] :
            s \in {200, 400},
            b \in {Raise("JSONDecodeError"), [t |-> "list", items |-> <<>>],
                   Dict(<<>>), Dict([id |-> Str(<<"7">>)]), Dict([id |-> Str(<<"Y">>)]),
                   Dict([id |-> Str(<<>>)])}}

InitPusher ==
    /\ pc = "call"
    /\ result = None
    /\ \/ /\ fn = "on_json_finalized"
          /\ args \in [file_name : PusherFiles, blob : Blobs,
                       env : [kintone : BOOLEAN, error_bucket : BOOLEAN],
                       response : Responses, upload : {"ok", "fail"}]
       \/ /\ fn = "create_record"
          /\ args \in [data : PusherData, response : Responses]

OnJsonFinalized ==
    /\ pc = "call" /\ fn = "on_json_finalized"
    /\ result' = on_json_finalized(args.file_name, args.blob, args.env,
                                   args.response, args.upload)
    /\ pc' = "done"
    /\ UNCHANGED <<fn, args>>

CreateRecord ==
    /\ pc = "call" /\ fn = "create_record"
    /\ result' = create_record(args.data, args.response)
    /\ pc' = "done"
    /\ UNCHANGED <<fn, args>>

NextPusher == OnJsonFinalized \/ CreateRecord

SpecPusher == InitPusher /\ [][NextPusher]_vars

\* the call reached create_record
Creating ==
    /\ pc = "done" /\ fn = "on_json_finalized"
    /\ IsJsonName(args.file_name)
    /\ ~IsRaise(args.blob) /\ ~IsRaise(args.blob.json)
    /\ args.env.kintone

\* the outcome the claim gives a call whose create_record ended as created
RoutedAsClaimed(created) ==
    /\ ~IsRaise(created.ret) => result.ret = None
    /\ (IsRaise(created.ret) /\ created.ret.exc = "KintoneValidationError")
           => /\ result.ret = None
              /\ result.saved # <<>> => args.env.error_bucket
              /\ (args.env.error_bucket /\ args.upload = "ok") => result.saved # <<>>
    /\ (IsRaise(created.ret) /\ created.ret.exc # "KintoneValidationError")
           => /\ result.ret = created.ret
              /\ result.saved = <<>>

\* C19: the handler returns normally when create_record raises
\* KintoneValidationError or when json.loads fails, and raises what was
\* raised when create_record raises KintoneAPIError or anything else, when
\* the download fails or when the client cannot be built; on a validation
\* error the error bucket holds the details only if ERROR_BUCKET is set, and
\* a failed upload of the details leaves the return value as it is.
C19_ErrorRouting ==
    (pc = "done" /\ fn = "on_json_finalized" /\ IsJsonName(args.file_name)) =>
        /\ IsRaise(args.blob) => result.ret = args.blob
        /\ (~IsRaise(args.blob) /\ IsRaise(args.blob.json)) => result.ret = None
        /\ (~IsRaise(args.blob) /\ ~IsRaise(args.blob.json) /\ ~args.env.kintone)
               => IsRaise(result.ret)
        /\ Creating => RoutedAsClaimed(create_record(args.blob.json, args.response))

\* a validation error with ERROR_BUCKET set and the upload of the details
\* failing: the handler has returned normally and nothing was saved
C19_Witness ==
    /\ Creating
    /\ IsRaise(validate_record_data(args.blob.json))
    /\ args.env.error_bucket /\ args.upload = "fail"
    /\ result.ret = None /\ result.saved = <<>>

(***************************************************************************)
(* update_invoice_fields (src/app/excel_updater.py and                     *)
(* src/functions/sheet_updater.py).  A dataframe with the default index is *)
(* the sequence of its rows, row label k being position k + 1; a row maps  *)
(* the columns to cells.  The columns are the four of cols: "company" for  *)
(* 社名, "incl" for 金額（税込み）, "excl" for 金額（税抜）, "due" for     *)
(* 入金期日.                                                               *)
(***************************************************************************)
MaxRows == 2

NaN == [t |-> "nan"]

Cols == {"company", "incl", "excl", "due"}

\* pd.isna(v)
IsNa(v) == v = NaN \/ v = None

\* str(v).strip() == "": str(NaN) is "nan" and str(None) is "None"
Blank(v) == v.t = "str" /\ Strip(v.s) = <<>>

\* df.isna().all(axis=1) | (df.astype(str).apply(lambda x: x.str.strip() == "")).all(axis=1)
EmptyIdx(df) ==
    {i \in 1..Len(df) : (\A c \in Cols : IsNa(df[i][c])) \/ (\A c \in Cols : Blank(df[i][c]))}

\* the value zip pairs with column c
ZipValue(result_data, c) ==
    CASE c = "company" -> Get(result_data, "company")
      [] c = "incl" -> Get(result_data, "amount_incl_tax")
      [] c = "excl" -> Get(result_data, "amount_excl_tax")
      [] c = "due" -> Get(result_data, "due_date")

\* src/app/excel_updater.py:3-24
update_invoice_fields_app(df, result_data) ==
    LET empty_idx == EmptyIdx(df)
        grown == IF empty_idx = {} THEN Append(df, [c \in Cols |-> NaN]) ELSE df
        row == IF empty_idx = {} THEN Len(grown) ELSE Min(empty_idx)
    IN  [grown EXCEPT ![row] =
            [c \in Cols |-> IF IsNa(grown[row][c]) \/ Blank(grown[row][c])
                            THEN ZipValue(result_data, c)
                            ELSE grown[row][c]]]

\* src/functions/sheet_updater.py:12-27; df.at on the label len(df) adds the row
update_invoice_fields_sheet(df, result_data) ==
    LET empty_idx == EmptyIdx(df)
        row == IF empty_idx # {} THEN Min(empty_idx) ELSE Len(df) + 1
        grown == IF row > Len(df) THEN Append(df, [c \in Cols |-> NaN]) ELSE df
    IN  [grown EXCEPT ![row] = [c \in Cols |-> ZipValue(result_data, c)]]

\* a cell: missing, a blank string, or a value
Cells == {NaN, Str(<<" ">>), Str(<<"A">>)}

Dataframes == SeqsUpTo([Cols -> Cells], MaxRows)

ResultData ==
    [company : {None, Str(<<"B">>)},
     amount_incl_tax : {Num(11)},
     amount_excl_tax : {Num(10)},
     due_date : {[t |-> "iso", y |-> 2025, mo |-> 9, d |-> 30]}]

InitUpdate ==
    /\ pc = "call"
    /\ fn \in {"app/excel_updater.py", "functions/sheet_updater.py"}
    /\ args \in [df : Dataframes, result_data : ResultData]
    /\ result = None

UpdateInvoiceFieldsApp ==
    /\ pc = "call" /\ fn = "app/excel_updater.py"
    /\ result' = update_invoice_fields_app(args.df, args.result_data)
    /\ pc' = "done"
    /\ UNCHANGED <<fn, args>>

UpdateInvoiceFieldsSheet ==
    /\ pc = "call" /\ fn = "functions/sheet_updater.py"
    /\ result' = update_invoice_fields_sheet(args.df, args.result_data)
    /\ pc' = "done"
    /\ UNCHANGED <<fn, args>>

NextUpdate == UpdateInvoiceFieldsApp \/ UpdateInvoiceFieldsSheet

SpecUpdate == InitUpdate /\ [][NextUpdate]_vars

\* a cell counts as empty when it is missing or blank (the test of
\* excel_updater.py line 21); a row is completely empty when every cell is
CellEmpty(v) == IsNa(v) \/ Blank(v)

CompletelyEmpty(r) == \A c \in Cols : CellEmpty(r[c])

\* the row the new values belong in: the first completely empty one, or
\* the one added after the last
TargetRow(df) ==
    IF \E i \in 1..Len(df) : CompletelyEmpty(df[i])
    THEN Min({i \in 1..Len(df) : CompletelyEmpty(df[i])})
    ELSE Len(df) + 1

\* C20: after update_invoice_fields every cell that was non-empty before
\* holds the same value, and the only row that differs from before is the
\* first completely empty row, or a row added at the end when no row is
\* completely empty.
C20_Original ==
    pc = "done" =>
        /\ Len(result) >= Len(args.df)
        /\ \A i \in 1..Len(args.df) : \A c \in Cols :
               ~CellEmpty(args.df[i][c]) => result[i][c] = args.df[i][c]
        /\ \A i \in 1..Len(result) :
               i # TargetRow(args.df) => (i <= Len(args.df) /\ result[i] = args.df[i])

(***************************************************************************)
(* The monetary fields from the extractor to the exporters:                *)
(* extract_from_text and save_json of src/app/main.py, save_daily_csv of   *)
(* src/modules/csv_utils.py.                                               *)
(***************************************************************************)
\* csv_utils.py:25-34: the row is built outside the try, so what int() or
\* strptime raises leaves save_daily_csv
RowOrRaise(row) ==
    IF \E i \in {4, 5, 7} : IsRaise(row[i])
    THEN row[CHOOSE i \in {4, 5, 7} : IsRaise(row[i]) /\ \A j \in {4, 5, 7} : IsRaise(row[j]) => i <= j]
    ELSE [t |-> "row", cells |-> row]

save_daily_csv_row(data) == RowOrRaise(CsvRow(data))

\* src/app/main.py:352-355: a numeric amount becomes its grouped string
GroupedIfNumeric(v) == IF v.t \in {"num", "dec"} THEN FormatThousands(PyInt(v)) ELSE v

\* src/app/main.py:349-367: the data save_json uploads
save_json_data(data) ==
    Dict([k \in DOMAIN data |->
            IF k \in {"amount_excl_tax", "amount_incl_tax"} THEN GroupedIfNumeric(data[k])
            ELSE data[k]])

FractionToken == Amt(<<"1", ",", "0", "0", "0", ".", "5">>)

MoneyTokens == {Kw("total"), Kw("subtotal"), AmountToken, FractionToken, Amt(<<"7">>), Nl}

MaxMoneyTokens == 4

InitMoney ==
    /\ pc = "call"
    /\ result = None
    /\ fn \in {"save_json", "save_daily_csv"}
    /\ args \in [text : [toks : SeqsUpTo(MoneyTokens, MaxMoneyTokens), tail : {0}]]

\* extract_from_text, then save_json on the record
ExtractAndSaveJson ==
    /\ pc = "call" /\ fn = "save_json"
    /\ result' = [record |-> extract_from_text_app(args.text).d,
                  out |-> save_json_data(extract_from_text_app(args.text).d)]
    /\ pc' = "done"
    /\ UNCHANGED <<fn, args>>

\* extract_from_text, then save_daily_csv on the record
ExtractAndSaveCsv ==
    /\ pc = "call" /\ fn = "save_daily_csv"
    /\ result' = [record |-> extract_from_text_app(args.text).d,
                  out |-> save_daily_csv_row(extract_from_text_app(args.text).d)]
    /\ pc' = "done"
    /\ UNCHANGED <<fn, args>>

NextMoney == ExtractAndSaveJson \/ ExtractAndSaveCsv

SpecMoney == InitMoney /\ [][NextMoney]_vars

\* the value parsed for the amount after keyword k, null when none
ParsedAmount(text, k) ==
    IF AmountSearchApp(Joined(text), k) = None THEN None
    ELSE to_decimal_app(AmountSearchApp(Joined(text), k))

\* v is a number equal to the parsed value d
NumericEqual(v, d) ==
    /\ v.t \in {"num", "dec"}
    /\ v.neg = d.neg /\ v.m * Pow10(d.e) = d.m * Pow10(v.e)

\* C21: the record returned by the extractor holds each amount as a number
\* equal to the parsed value (null when nothing was parsed), and the export
\* of that record does not raise.
C21_Original ==
    pc = "done" =>
        /\ ParsedAmount(args.text, "subtotal") = None
               => result.record.amount_excl_tax = None
        /\ ParsedAmount(args.text, "subtotal") # None
               => NumericEqual(result.record.amount_excl_tax,
                               ParsedAmount(args.text, "subtotal"))
        /\ ParsedAmount(args.text, "total") = None
               => result.record.amount_incl_tax = None
        /\ ParsedAmount(args.text, "total") # None
               => NumericEqual(result.record.amount_incl_tax,
                               ParsedAmount(args.text, "total"))
        /\ ~IsRaise(result.out)

(***************************************************************************)
(* KintoneClient.create_record, update_record and create_records_bulk      *)
(* (src/modules/kintone_client.py), called on their own.                   *)
(***************************************************************************)
\* lines 441-463: what update_record returns or raises once the PUT is sent
UpdateResult(response) ==
    IF response.kind \in {"timeout", "connection"} THEN Raise("KintoneAPIError")
    ELSE IF response.status >= 400 THEN Raise("KintoneAPIError")
    ELSE None

\* lines 429-463: nothing is sent when the validation raised
RequestPut(validated_data, record_id, response) ==
    IF IsRaise(validated_data) THEN [ret |-> validated_data, sent |-> <<>>]
    ELSE [ret |-> UpdateResult(response),
          sent |-> <<[id |-> record_id, record |-> Payload(validated_data.d)]>>]

\* src/modules/kintone_client.py:415-463
update_record(record_id, data, response) ==
    RequestPut(validate_record_data(data), record_id, response)

\* lines 384-406: one turn of the loop; created is what create_record
\* returned or raised
BulkStep(results, idx, data, created) ==
    IF ~IsRaise(created.ret)
    THEN [results EXCEPT
             !.success = Append(@, [index |-> idx, record_id |-> created.ret, data |-> data]),
             !.success_count = @ + 1]
    ELSE [results EXCEPT
             !.failed = Append(@, [index |-> idx, error |-> created.ret, data |-> data]),
             !.failed_count = @ + 1]

\* except (KintoneValidationError, KintoneAPIError): anything else leaves the loop
Caught(created) ==
    ~IsRaise(created.ret) \/ created.ret.exc \in {"KintoneValidationError", "KintoneAPIError"}

RECURSIVE BulkLoop(_, _, _, _)
BulkLoop(records, responses, idx, results) ==
    IF idx > Len(records) THEN results
    ELSE IF ~Caught(create_record(records[idx], responses[idx]))
         THEN create_record(records[idx], responses[idx]).ret
    ELSE BulkLoop(records, responses, idx + 1,
                  BulkStep(results, idx, records[idx],
                           create_record(records[idx], responses[idx])))

\* src/modules/kintone_client.py:363-413; responses[i] is what the request
\* for records[i] meets
create_records_bulk(records, responses) ==
    BulkLoop(records, responses, 1,
             [t |-> "summary", success |-> <<>>, failed |-> <<>>, total |-> Len(records),
              success_count |-> 0, failed_count |-> 0])

MaxBulk == 3

BulkData ==
    {Dict([vendor |-> Str(<<"KABU", "KAISHA", "A">>), subtotal |-> Num(10),
           total |-> Num(11), due_date |-> None]),
     Dict([vendor |-> None, subtotal |-> Num(10), total |-> Num(11), due_date |-> None])}

BulkResponses ==
    {[kind |-> "timeout"],
     [kind |-> "reply", status |-> 200, body |-> Dict([id |-> Str(<<"7">>)])],
     [kind |-> "reply", status |-> 200, body |-> [t |-> "list", items |-> <<>>]]}

\* the data handed to create_record and update_record
ClientData ==
    PusherData \cup
    {Dict([vendor |-> Str(<<"KABU", "KAISHA", "A">>), subtotal |-> Str(<<"NaN">>),
           total |-> Num(11), due_date |-> None])}

InitClient ==
    /\ pc = "call"
    /\ result = None
    /\ \/ /\ fn = "create_record"
          /\ args \in [data : ClientData, response : Responses]
       \/ /\ fn = "update_record"
          /\ args \in [record_id : {7}, data : ClientData, response : Responses]
       \/ /\ fn = "create_records_bulk"
          /\ \E n \in 0..MaxBulk :
                args \in [records : [1..n -> BulkData], responses : [1..n -> BulkResponses]]

UpdateRecord ==
    /\ pc = "call" /\ fn = "update_record"
    /\ result' = update_record(args.record_id, args.data, args.response)
    /\ pc' = "done"
    /\ UNCHANGED <<fn, args>>

CreateRecordsBulk ==
    /\ pc = "call" /\ fn = "create_records_bulk"
    /\ result' = create_records_bulk(args.records, args.responses)
    /\ pc' = "done"
    /\ UNCHANGED <<fn, args>>

NextClient == CreateRecord \/ UpdateRecord \/ CreateRecordsBulk

SpecClient == InitClient /\ [][NextClient]_vars

\* an amount the claim calls negative or non-numeric: a negative number, or
\* a string that is not a decimal numeral or spells a negative one
BadAmount(v) ==
    /\ v # None /\ v # Str(<<>>)
    /\ \/ v.t \in {"num", "dec"} /\ v.neg /\ v.m # 0
       \/ v.t = "str" /\ IsRaise(DecimalCtor(v.s))
       \/ v.t = "str" /\ ~IsRaise(DecimalCtor(v.s))
              /\ DecimalCtor(v.s).neg /\ DecimalCtor(v.s).m # 0

\* the data has one of the errors the claim names
HasClaimedError(d) ==
    \/ ~Truthy(Get(d, "vendor"))
    \/ Get(d, "vendor").t = "str"
          /\ RemoveSpace(RemoveKabushiki(d.vendor.s, {"PK", "MK", "AK"})) = <<>>
    \/ BadAmount(Get(d, "subtotal"))
    \/ BadAmount(Get(d, "total"))
    \/ Truthy(Get(d, "due_date"))
          /\ ~(Get(d, "due_date").t = "iso"
               /\ DateValid(d.due_date.y, d.due_date.mo, d.due_date.d))

\* C22: when the data has an error (vendor missing, empty or empty once
\* normalized, subtotal or total negative or non-numeric, due date not a
\* valid date), create_record and update_record raise
\* KintoneValidationError and send no request.
C22_Original ==
    (pc = "done" /\ fn \in {"create_record", "update_record"}
        /\ args.data.t = "dict" /\ HasClaimedError(args.data.d)) =>
            /\ IsRaise(result.ret) /\ result.ret.exc = "KintoneValidationError"
            /\ result.sent = <<>>

\* the indexes listed in a list of the summary
Indexes(entries) == [i \in 1..Len(entries) |-> entries[i].index]

\* C23: create_records_bulk returns a summary in which every index 1..n is
\* in exactly one of success and failed, once and in input order, and the
\* counts are the lengths of the lists and add up to total = n.
C23_Original ==
    (pc = "done" /\ fn = "create_records_bulk") =>
        /\ result.t = "summary"
        /\ \A i \in 1..Len(args.records) :
              Cardinality({j \in 1..Len(result.success) : result.success[j].index = i})
              + Cardinality({j \in 1..Len(result.failed) : result.failed[j].index = i}) = 1
        /\ \A j \in 1..(Len(result.success) - 1) :
              result.success[j].index < result.success[j + 1].index
        /\ \A j \in 1..(Len(result.failed) - 1) :
              result.failed[j].index < result.failed[j + 1].index
        /\ result.success_count = Len(result.success)
        /\ result.failed_count = Len(result.failed)
        /\ result.total = Len(args.records)
        /\ result.success_count + result.failed_count = result.total

(***************************************************************************)
(* Registry sync: load_master, sync_event and save_master of               *)
(* src/modules/company_master_event_handler.py and                         *)
(* src/company_master_event_handler.py.  The registry file is a list of    *)
(* entries {vendor, tool}, or is missing.  An event carries its type and   *)
(* record.vendor.value and record.tool.value.                              *)
(***************************************************************************)
Missing == Raise("FileNotFoundError")

\* load_master: the entries of the file, [] when there is no file
load_master(file) == IF file = Missing THEN <<>> ELSE file.items

\* save_master: the file holds the list
save_master(data) == [t |-> "list", items |-> data]

\* match(rec)
Match(rec, event) == rec.vendor = event.vendor

\* the index of the first matching entry, 0 when none matches
FirstMatch(master, event) ==
    IF \E i \in 1..Len(master) : Match(master[i], event)
    THEN Min({i \in 1..Len(master) : Match(master[i], event)})
    ELSE 0

\* a variant that updates every matching entry
Modified_every(master, event) ==
    CASE event.type = "ADD_RECORD" ->
            Append(master, [vendor |-> event.vendor, tool |-> event.tool])
      [] event.type = "EDIT_RECORD" ->
            [i \in 1..Len(master) |->
                IF Match(master[i], event) THEN [master[i] EXCEPT !.tool = event.tool]
                ELSE master[i]]
      [] event.type = "DELETE_RECORD" ->
            SelectSeq(master, LAMBDA rec : ~Match(rec, event))
      [] OTHER -> master

\* the if / elif chain of sync_event on the loaded list
Modified(master, event) ==
    CASE event.type = "ADD_RECORD" ->
            Append(master, [vendor |-> event.vendor, tool |-> event.tool])
      [] event.type = "EDIT_RECORD" ->
            [i \in 1..Len(master) |->
                IF i = FirstMatch(master, event) THEN [master[i] EXCEPT !.tool = event.tool]
                ELSE master[i]]
      [] event.type = "DELETE_RECORD" ->
            SelectSeq(master, LAMBDA rec : ~Match(rec, event))
      [] OTHER -> master

\* src/modules/company_master_event_handler.py:27-53: the file afterwards
sync_event_modules(file, event) == save_master(Modified(load_master(file), event))

\* src/company_master_event_handler.py:20-52: the file afterwards
sync_event_root(file, event) == save_master(Modified(load_master(file), event))

SyncVendors == {Str(<<"A">>), Str(<<"B">>)}

SyncTools == {Str(<<"X">>), Str(<<"Y">>)}

RegistryFiles ==
    {Missing} \cup
    {[t |-> "list", items |-> m] :
        m \in SeqsUpTo([vendor : SyncVendors, tool : SyncTools], MaxRegistry)}

SyncEvents ==
    [type : {"ADD_RECORD", "EDIT_RECORD", "DELETE_RECORD", "UPDATE_STATUS"},
     vendor : SyncVendors, tool : SyncTools]

InitSync ==
    /\ pc = "call"
    /\ fn \in {"modules/company_master_event_handler.py", "company_master_event_handler.py"}
    /\ args \in [file : RegistryFiles, event : SyncEvents]
    /\ result = None

SyncEventModules ==
    /\ pc = "call" /\ fn = "modules/company_master_event_handler.py"
    /\ result' = sync_event_modules(args.file, args.event)
    /\ pc' = "done"
    /\ UNCHANGED <<fn, args>>

SyncEventRoot ==
    /\ pc = "call" /\ fn = "company_master_event_handler.py"
    /\ result' = sync_event_root(args.file, args.event)
    /\ pc' = "done"
    /\ UNCHANGED <<fn, args>>

NextSync == SyncEventModules \/ SyncEventRoot

SpecSync == InitSync /\ [][NextSync]_vars

\* the entries of a list whose vendor is not v, in order
Others(master, v) == SelectSeq(master, LAMBDA rec : rec.vendor # v)

\* the entries of a list whose vendor is v, in order
Matching(master, v) == SelectSeq(master, LAMBDA rec : rec.vendor = v)

\* C24: after sync_event the file is saved; the entries of other vendors
\* keep their values and order; ADD_RECORD adds one entry {vendor, tool} at
\* the end, EDIT_RECORD changes the tool of the first matching entry only,
\* DELETE_RECORD leaves no matching entry, any other type changes nothing.
C24_SyncEvent ==
    pc = "done" =>
        LET old == load_master(args.file)
            new == result.items
            ev == args.event
        IN  /\ result.t = "list"
            /\ Others(new, ev.vendor) = Others(old, ev.vendor)
            /\ ev.type = "ADD_RECORD"
                  => /\ Len(new) = Len(old) + 1
                     /\ SubSeq(new, 1, Len(old)) = old
                     /\ new[Len(new)] = [vendor |-> ev.vendor, tool |-> ev.tool]
            /\ ev.type = "EDIT_RECORD"
                  => /\ Len(new) = Len(old)
                     /\ \A i \in 1..Len(old) : new[i].vendor = old[i].vendor
                     /\ Matching(old, ev.vendor) # <<>>
                           => /\ Head(Matching(new, ev.vendor)).tool = ev.tool
                              /\ Tail(Matching(new, ev.vendor)) = Tail(Matching(old, ev.vendor))
            /\ ev.type = "DELETE_RECORD"
                  => /\ Matching(new, ev.vendor) = <<>>
                     /\ Len(new) = Len(Others(old, ev.vendor))
            /\ ev.type \notin {"ADD_RECORD", "EDIT_RECORD", "DELETE_RECORD"} => new = old

\* EDIT_RECORD on a registry with two entries of the vendor: the first has
\* the new tool, the second keeps another one
C24_Witness ==
    /\ pc = "done" /\ args.event.type = "EDIT_RECORD"
    /\ Len(Matching(result.items, args.event.vendor)) = 2
    /\ Matching(result.items, args.event.vendor)[1].tool = args.event.tool
    /\ Matching(result.items, args.event.vendor)[2].tool # args.event.tool
    /\ Matching(load_master(args.file), args.event.vendor)[1].tool # args.event.tool

(***************************************************************************)
(* Two sync_event calls at once.  Each call loads the file, modifies its   *)
(* own list and saves it; nothing in the code orders the calls.  Both     *)
(* calls are of the same copy, so they share MASTER_PATH.  pc, fn and args *)
(* are per call; result holds the file, the file at the start and the list *)
(* each call has loaded.                                                   *)
(***************************************************************************)
Syncs == 1..2

InitSyncs ==
    /\ pc = [i \in Syncs |-> "start"]
    /\ \E copy \in {"modules/company_master_event_handler.py",
                     "company_master_event_handler.py"} : fn = [i \in Syncs |-> copy]
    /\ args \in [Syncs -> SyncEvents]
    /\ args[1].vendor # args[2].vendor
    /\ \E file \in RegistryFiles :
          result = [file |-> file, first |-> file, master |-> [i \in Syncs |-> <<>>]]

\* master = load_master()
LoadMaster(i) ==
    /\ pc[i] = "start"
    /\ result' = [result EXCEPT !.master[i] = load_master(result.file)]
    /\ pc' = [pc EXCEPT ![i] = "loaded"]
    /\ UNCHANGED <<fn, args>>

\* the if / elif chain, then save_master(master)
ModifyAndSave(i) ==
    /\ pc[i] = "loaded"
    /\ result' = [result EXCEPT !.file = save_master(Modified(result.master[i], args[i]))]
    /\ pc' = [pc EXCEPT ![i] = "done"]
    /\ UNCHANGED <<fn, args>>

NextSyncs == \E i \in Syncs : LoadMaster(i) \/ ModifyAndSave(i)

SpecSyncs == InitSyncs /\ [][NextSyncs]_vars

\* the file after call i then call j, one after the other
InOrder(file, i, j) ==
    save_master(Modified(Modified(load_master(file), args[i]), args[j]))

\* C29: once both calls have ended, the file is what the two calls leave
\* when they run one after the other in some order.
C29_Original ==
    (\A i \in Syncs : pc[i] = "done") =>
        \/ result.file = InOrder(result.first, 1, 2)
        \/ result.file = InOrder(result.first, 2, 1)

(***************************************************************************)
(* Upload de-duplication: upload_files of src/web/app.py.  A file of a     *)
(* request has a name, a content and what the storage calls made for it    *)
(* do; the SHA-256 digest of a content is the content itself, tagged.  The *)
(* entries of the response lists carry the position of the file in the     *)
(* request.  Requests are handled one after the other: pc counts the files *)
(* handled so far, result holds the bucket, the names written so far in    *)
(* order, the bucket before the last request and its response.             *)
(***************************************************************************)
MaxUploads == 3

\* f"{file_hash}.pdf"
SaveFilename(content) == [hash |-> content, ext |-> ".pdf"]

\* f.filename and f.filename.lower().endswith('.pdf')
IsPdfName(filename) == filename.ext \in {".pdf", ".PDF"}

\* a variant that uploads without looking for the object first
UploadOne_unchecked(acc, idx, file) ==
    IF file.storage # "ok"
    THEN [acc EXCEPT !.failed = Append(@, [index |-> idx, filename |-> file.filename])]
    ELSE [acc EXCEPT
              !.bucket = @ \cup {SaveFilename(file.content)},
              !.written = Append(@, SaveFilename(file.content)),
              !.uploaded = Append(@, [index |-> idx, original_name |-> file.filename,
                                      uploaded_name |-> SaveFilename(file.content)])]

\* lines 60-107: one turn of the loop
UploadOne(acc, idx, file) ==
    IF file.storage = "exists fails"
    THEN [acc EXCEPT !.failed = Append(@, [index |-> idx, filename |-> file.filename])]
    ELSE IF SaveFilename(file.content) \in acc.bucket
         THEN [acc EXCEPT !.duplicates =
                              Append(@, [index |-> idx, original_name |-> file.filename])]
    ELSE IF file.storage = "upload fails"
         THEN [acc EXCEPT !.failed = Append(@, [index |-> idx, filename |-> file.filename])]
    ELSE [acc EXCEPT
              !.bucket = @ \cup {SaveFilename(file.content)},
              !.written = Append(@, SaveFilename(file.content)),
              !.uploaded = Append(@, [index |-> idx, original_name |-> file.filename,
                                      uploaded_name |-> SaveFilename(file.content)])]

\* for file in pdf_files
RECURSIVE UploadLoop(_, _, _)
UploadLoop(acc, files, idx) ==
    IF idx > Len(files) THEN acc
    ELSE IF ~IsPdfName(files[idx].filename) THEN UploadLoop(acc, files, idx + 1)
    ELSE UploadLoop(UploadOne(acc, idx, files[idx]), files, idx + 1)

\* lines 109-142: the status of the response
Status(acc) ==
    IF acc.failed = <<>> /\ acc.duplicates = <<>> THEN 200
    ELSE IF acc.uploaded = <<>> /\ acc.duplicates = <<>> THEN 500
    ELSE 207

\* the bucket, the names written and the response once the loop has ended
Responded(before, acc) ==
    [bucket |-> acc.bucket, written |-> acc.written, before |-> before,
     response |-> [status |-> Status(acc), uploaded |-> acc.uploaded,
                   duplicates |-> acc.duplicates, failed |-> acc.failed]]

\* a response that reports no file
Refused(state, status) ==
    [bucket |-> state.bucket, written |-> state.written, before |-> state.bucket,
     response |-> [status |-> status, uploaded |-> <<>>, duplicates |-> <<>>,
                   failed |-> <<>>]]

\* src/web/app.py:31-149; state is result before the request
upload_files(state, request) ==
    IF request.files = <<>> THEN Refused(state, 400)
    ELSE IF \A i \in 1..Len(request.files) : ~IsPdfName(request.files[i].filename)
         THEN Refused(state, 400)
    ELSE IF request.client # "ok" THEN Refused(state, 500)
    ELSE Responded(state.bucket,
                   UploadLoop([bucket |-> state.bucket, written |-> state.written,
                               uploaded |-> <<>>, duplicates |-> <<>>, failed |-> <<>>],
                              request.files, 1))

UploadedFiles ==
    [filename : {[stem |-> "a", ext |-> e] : e \in {".PDF", ".txt"}},
     content : {"c1", "c2"},
     storage : {"ok", "exists fails", "upload fails"}]

NoRequest == [files |-> <<>>, client |-> "ok"]

InitUpload ==
    /\ pc = 0
    /\ fn = "upload_files"
    /\ args = NoRequest
    /\ result = [bucket |-> {}, written |-> <<>>, before |-> {},
                 response |-> [status |-> 0, uploaded |-> <<>>, duplicates |-> <<>>,
                               failed |-> <<>>]]

UploadFiles ==
    \E n \in 0..(MaxUploads - pc) :
        \E files \in [1..n -> UploadedFiles], client \in {"ok", "fails"} :
            /\ args' = [files |-> files, client |-> client]
            /\ result' = upload_files(result, args')
            /\ pc' = pc + n
            /\ UNCHANGED fn

NextUpload == UploadFiles

SpecUpload == InitUpload /\ [][NextUpload]_vars


\* the positions of the request's files that carry a PDF name
PdfIndexes == {i \in 1..Len(args.files) : IsPdfName(args.files[i].filename)}

\* the positions a list of the response reports
Reported(list) == {list[k].index : k \in 1..Len(list)}

\* the request reached the loop over its PDF files
Handled == args.client = "ok" /\ PdfIndexes # {}

\* no name was written twice, and the bucket holds what was written
WrittenOnce ==
    /\ \A j, k \in 1..Len(result.written) :
           result.written[j] = result.written[k] => j = k
    /\ result.bucket = {result.written[k] : k \in 1..Len(result.written)}

\* C25 as stated: every PDF of a request is in the bucket afterwards under
\* <hash>.pdf, written once; one whose hash named an object before the
\* request is reported in duplicates; a file without a PDF name is not
\* written
C25_Original ==
    /\ WrittenOnce
    /\ \A i \in 1..Len(args.files) :
           IF i \in PdfIndexes
           THEN /\ SaveFilename(args.files[i].content) \in result.bucket
                /\ SaveFilename(args.files[i].content) \in result.before
                       => i \in Reported(result.response.duplicates)
           ELSE i \notin Reported(result.response.uploaded)

\* C25: no object name is ever written twice and the bucket holds exactly
\* the names written; a request that reaches the loop reports every file
\* with a PDF name in exactly one of uploaded, duplicates and failed, and no
\* other file; a reported duplicate names an object that was in the bucket
\* before its turn, an uploaded file is written under <hash>.pdf, a name
\* that was new, and the bucket afterwards is the bucket before plus
\* the names of the uploaded files; a PDF whose storage calls succeed is in
\* the bucket afterwards, as a duplicate when its name was there before the
\* request; a file whose storage call raises is reported in failed, and a
\* request that does not reach the loop leaves the bucket as it was
C25_Dedup ==
    /\ WrittenOnce
    /\ ~Handled => result.bucket = result.before
    /\ Handled =>
         /\ Reported(result.response.uploaded) \cup Reported(result.response.duplicates)
                \cup Reported(result.response.failed) = PdfIndexes
         /\ Reported(result.response.uploaded) \cap Reported(result.response.duplicates) = {}
         /\ Reported(result.response.uploaded) \cap Reported(result.response.failed) = {}
         /\ Reported(result.response.duplicates) \cap Reported(result.response.failed) = {}
         /\ result.bucket = result.before \cup
                {SaveFilename(args.files[i].content) :
                     i \in Reported(result.response.uploaded)}
         /\ \A k \in 1..Len(result.response.uploaded) :
                /\ result.response.uploaded[k].uploaded_name =
                       SaveFilename(args.files[result.response.uploaded[k].index].content)
                /\ result.response.uploaded[k].uploaded_name \notin result.before
         /\ \A i \in Reported(result.response.duplicates) :
                \/ SaveFilename(args.files[i].content) \in result.before
                \/ \E j \in Reported(result.response.uploaded) :
                       j < i /\ args.files[j].content = args.files[i].content
         /\ \A i \in Reported(result.response.failed) : args.files[i].storage # "ok"
         /\ \A i \in PdfIndexes :
                args.files[i].storage = "ok" =>
                    /\ SaveFilename(args.files[i].content) \in result.bucket
                    /\ SaveFilename(args.files[i].content) \in result.before
                           => i \in Reported(result.response.duplicates)
         /\ result.response.duplicates # <<>> => result.response.status = 207

\* a second request uploads a content again: one file is reported as a
\* duplicate of an object written by an earlier request, another is written
C25_Witness ==
    /\ Handled
    /\ result.before # {}
    /\ result.response.duplicates # <<>>
    /\ result.response.uploaded # <<>>
    /\ \E i \in Reported(result.response.duplicates) :
           SaveFilename(args.files[i].content) \in result.before


(***************************************************************************)
(* The chain of storage triggers: on_file_finalized and save_json of       *)
(* src/main.py and src/app/main.py.  The function is triggered by every    *)
(* object finalized in the bucket "in".  An object name is a directory and *)
(* the segments of its base name, <<"x", ".pdf">>.  result holds the       *)
(* objects written and the event waiting to be delivered.  The chain of    *)
(* names is unbounded: names of more than MaxChain + 2 segments are        *)
(* identified with the name that has two of the appended segments less,    *)
(* which keeps the states finite and every delivery a change of state.     *)
(***************************************************************************)
MaxChain == 2

\* base = source_blob_name.rsplit("/", 1)[-1]
\* json_name = re.sub(r"\.pdf$", "", base, flags=re.I) + ".json"
json_name(name) ==
    IF name.base[Len(name.base)] \in {".pdf", ".PDF"}
    THEN [dir |-> "", base |-> Append(SubSeq(name.base, 1, Len(name.base) - 1), ".json")]
    ELSE [dir |-> "", base |-> Append(name.base, ".json")]

\* names of the same chain beyond MaxChain steps
Folded(name) ==
    IF Len(name.base) > MaxChain + 2
    THEN [name EXCEPT !.base = SubSeq(@, 1, Len(@) - 2)]
    ELSE name

\* target_bucket = OUTPUT_BUCKET or bucket
TargetBucket(output_bucket, bucket) ==
    IF output_bucket \in {"None", ""} THEN bucket ELSE output_bucket

\* save_json: the object written, or nothing when the upload raises
save_json(to_bucket, source_blob_name, upload) ==
    IF upload = "ok" THEN {[bucket |-> to_bucket, name |-> Folded(json_name(source_blob_name))]}
    ELSE {}

\* the finalize events an upload causes for the function
Finalized(written) == {o \in written : o.bucket = "in"}

ChainNames ==
    [dir : {"", "inbox/"},
     base : {<<"x", e>> : e \in {".pdf", ".PDF", ".txt", ".json"}}]

InitChain ==
    /\ pc = "pending"
    /\ fn \in {"src/main.py", "src/app/main.py"}
    /\ args \in [OUTPUT_BUCKET : {"None", "", "in", "out"}]
    /\ \E name \in ChainNames :
           result = [objects |-> {[bucket |-> "in", name |-> name]},
                     events |-> {[bucket |-> "in", name |-> name]}]

\* on_file_finalized for one waiting event: process_pdf returns a record
\* whether or not the document could be read, save_json writes it
OnFileFinalizedChain ==
    /\ pc = "pending"
    /\ \E event \in result.events, upload \in {"ok", "raises"} :
           result' = [objects |-> result.objects \cup
                          save_json(TargetBucket(args.OUTPUT_BUCKET, event.bucket),
                                    event.name, upload),
                      events |-> (result.events \ {event}) \cup
                          Finalized(save_json(TargetBucket(args.OUTPUT_BUCKET, event.bucket),
                                              event.name, upload))]
    /\ pc' = IF result'.events = {} THEN "quiet" ELSE "pending"
    /\ UNCHANGED <<fn, args>>

NextChain == OnFileFinalizedChain

SpecChain == InitChain /\ [][NextChain]_vars

\* every waiting event is delivered
SpecChainLive == SpecChain /\ WF_vars(OnFileFinalizedChain)

\* C26: the chain started by one finalized object ends: eventually no event
\* is waiting
C26_Original == <>(pc = "quiet")


(***************************************************************************)
(* From the PDF processor to the Kintone pusher: on_file_finalized of      *)
(* src/functions/pdf-processor/main.py and the filter of on_json_finalized *)
(* (src/functions/kintone-pusher/main.py).  An object name is a sequence   *)
(* of segments, <<"x", ".PDF">>; an extension in another spelling is       *)
(* another segment.                                                        *)
(***************************************************************************)
MaxObjectSegs == 3

ObjectSegs == {"x", "/", ".pdf", ".PDF", ".Pdf", ".json", ".JSON"}

LowerSeg(c) ==
    CASE c \in {".pdf", ".PDF", ".Pdf"} -> ".pdf"
      [] c \in {".json", ".JSON"} -> ".json"
      [] OTHER -> c

\* file_name.lower().endswith(ext)
LowerEndsWith(file_name, ext) ==
    file_name # <<>> /\ LowerSeg(file_name[Len(file_name)]) = ext

\* file_name.replace(".pdf", ".json")
ReplacePdf(file_name) ==
    [i \in 1..Len(file_name) |-> IF file_name[i] = ".pdf" THEN ".json" ELSE file_name[i]]

\* src/functions/pdf-processor/main.py:18-76: the object written, a skip or
\* the exception raised again
on_file_finalized_processor(file_name, output_bucket, processed) ==
    IF ~LowerEndsWith(file_name, ".pdf") THEN [t |-> "skipped"]
    ELSE IF processed # "ok" THEN Raise("Exception")
    ELSE IF output_bucket \in {"None", ""} THEN Raise("ValueError")
    ELSE [t |-> "written", bucket |-> output_bucket, name |-> ReplacePdf(file_name)]

\* src/functions/kintone-pusher/main.py:44-47
PusherAccepts(file_name) == LowerEndsWith(file_name, ".json")

InitProcessor ==
    /\ pc = "call"
    /\ fn = "on_file_finalized"
    /\ \E n \in 1..MaxObjectSegs : \E file_name \in [1..n -> ObjectSegs] :
           args \in [file_name : {file_name}, OUTPUT_BUCKET : {"None", "out"},
                     processed : {"ok", "raises"}]
    /\ result = None

OnFileFinalizedProcessor ==
    /\ pc = "call"
    /\ result' = on_file_finalized_processor(args.file_name, args.OUTPUT_BUCKET,
                                             args.processed)
    /\ pc' = "finalized"
    /\ UNCHANGED <<fn, args>>

\* the pusher is triggered by the object the processor wrote
OnJsonFinalizedFilter ==
    /\ pc = "finalized" /\ result.t = "written"
    /\ fn' = "on_json_finalized"
    /\ pc' = IF PusherAccepts(result.name) THEN "accepted" ELSE "skipped"
    /\ UNCHANGED <<args, result>>

NextProcessor == OnFileFinalizedProcessor \/ OnJsonFinalizedFilter

SpecProcessor == InitProcessor /\ [][NextProcessor]_vars

\* C27: the name of every object the PDF processor writes ends with ".json"
\* and differs from the name of its input, and the pusher does not skip it
C27_Original ==
    /\ (pc = "finalized" /\ result.t = "written") =>
           /\ LowerEndsWith(result.name, ".json")
           /\ result.name # args.file_name
    /\ pc # "skipped"


(***************************************************************************)
(* C28                                                                     *)
(***************************************************************************)
\* the type of entity i contains a candidate of the subtotal category
SubtotalCategory(i) ==
    \E k \in 1..Len(CandSubtotalMain) :
        Contains(TypeLower(args.entities[i]), CandSubtotalMain[k])

\* C28: the entity selected with the total candidates is never an entity
\* whose type contains "subtotal", "net_amount" or
\* "amount_due_excluding_tax"
C28_Original ==
    (pc = "done" /\ args.cands \in {CandTotalMain, CandTotalUtils} /\ result.t = "ent")
        => ~SubtotalCategory(result.i)

====
